---- MODULE Spec2Model ----
(***************************************************************************)
(* Model of the session-log ingestion and terminal-command construction    *)
(* pipeline of the Claude Code Raycast extension:                          *)
(*   - parseSessionFile (one log file folded into a Session),              *)
(*   - loadSessions / getAllSessionFiles (the catalog refresh and its      *)
(*     isGlobalLoading guard),                                             *)
(*   - the launch command lines and their AppleScript escaping.            *)
(* Strings are sequences of one-character strings; JSON values carry their *)
(* JavaScript type; Dates are milliseconds since the epoch or invalid.     *)
(***************************************************************************)
EXTENDS Integers, Sequences, FiniteSets, TLC

VARIABLES
    \* ---- parseSessionFile, one run (SpecParse) ----
    ppc,        \* position in parseSessionFile: "read", "loop", "returned"
    pnow,       \* value of new Date() when the locals are initialised
    lines,      \* indices (into LineDomain) of the examined lines folded so far
    acc,        \* the locals sessionId, directory, description, timestamp, lastActivity, isErrorSession
    pfile,      \* the file handed to parseSessionFile (name, mtime, stat outcome)
    result,     \* what parseSessionFile returned: NoSession or a Session
    \* ---- SessionSearch components and loadSessions (Spec) ----
    isGlobalLoading, \* module-level flag
    clock,      \* Date.now()
    mounted,    \* per component: has its useEffect run
    isLoading,  \* per component React state
    error,      \* per component React state
    sessions,   \* per component React state (published list)
    pc,         \* per component: position of its loadSessions call
    guarded,    \* per component: the running loadSessions was started by load() under the guard
    startTime,  \* per component: loadSessions' startTime
    recent,     \* per component: loadSessions' recentFiles
    idx,        \* per component: index of the next file of recentFiles
    local,      \* per component: loadSessions' local sessions array
    scanCount,  \* number of getAllSessionFiles invocations so far
    rootListable, \* can ~/.claude/projects be listed
    projects,   \* readdir of ~/.claude/projects: its entries in listing order
    \* ---- launch command construction (SpecCmd) ----
    cpc,        \* position of a launch: "ready", "built", then "scripted", "shell" or "executing", "reported"
    cdir,       \* the directory value (session.directory / targetDir / project.path)
    carg,       \* the id or path value (session.id / item.path / project.path)
    ckind,      \* "resume", "open" or "project"
    cisDir,     \* is the selected Finder item a directory (launches of kind "open")
    command,    \* the shell command line built by interpolation
    script,     \* the AppleScript source handed to osascript
    typed,      \* the text Terminal's shell is given by "do script"
    \* ---- parseProject on one project group (SpecProj) ----
    qpc,        \* position in parseProject: "list" (at readdir), "files", "done"
    group,      \* the project directory: can it be listed, and its files in listing order
    fileStats,  \* parseProject's fileStats after the sort
    qidx,       \* index of the next file of fileStats
    readFiles,  \* the paths handed to readFile so far, in order
    project,    \* what parseProject returned: NoProject or a ProjectInfo
    \* ---- a launch through executeInTerminal (SpecLaunch, with the cmd variables) ----
    loutcome,   \* how executeInTerminal ended: its result, or that it raised
    report,     \* the notification shown for the attempt
    unhandled,  \* an error left the action handler uncaught
    launchError, \* ClaudeCodeLauncher's launchError state
    isLaunched, \* ClaudeCodeLauncher's isLaunched state
    launching   \* ClaudeCodeLauncher's isLoading state

parseVars == <<ppc, pnow, lines, acc, pfile, result>>
loadVars == <<isGlobalLoading, clock, mounted, isLoading, error, sessions, pc,
              guarded, startTime, recent, idx, local, scanCount, rootListable, projects>>
cmdVars == <<cpc, cdir, carg, ckind, cisDir, command, script, typed>>
projVars == <<qpc, group, fileStats, qidx, readFiles, project>>
launchVars == <<loutcome, report, unhandled, launchError, isLaunched, launching>>
vars == <<ppc, pnow, lines, acc, pfile, result,
          isGlobalLoading, clock, mounted, isLoading, error, sessions, pc,
          guarded, startTime, recent, idx, local, scanCount, rootListable, projects,
          cpc, cdir, carg, ckind, cisDir, command, script, typed,
          qpc, group, fileStats, qidx, readFiles, project,
          loutcome, report, unhandled, launchError, isLaunched, launching>>

-----------------------------------------------------------------------------
(* Strings *)

Rep(c, n) == [i \in 1..n |-> c]

Min(a, b) == IF a < b THEN a ELSE b

\* String.prototype.substring(from, to) with 0-based from, exclusive to
Substring(s, from, to) == SubSeq(s, from + 1, Min(to, Len(s)))

\* String.prototype.includes
Includes(s, pat) ==
    \E i \in 0..(Len(s) - Len(pat)) : SubSeq(s, i + 1, i + Len(pat)) = pat

\* String.prototype.endsWith
EndsWith(s, suf) ==
    Len(s) >= Len(suf) /\ SubSeq(s, Len(s) - Len(suf) + 1, Len(s)) = suf

-----------------------------------------------------------------------------
(* JavaScript values as decoded by JSON.parse: undefined (field absent),   *)
(* a string, a number, or an array.                                        *)

Undef == [t |-> "undef", s |-> <<>>, n |-> 0]
Str(x) == [t |-> "str", s |-> x, n |-> 0]
Num(k) == [t |-> "num", s |-> <<>>, n |-> k]
Arr == [t |-> "arr", s |-> <<>>, n |-> 0]

\* JavaScript truthiness: undefined, "" and 0 are falsy
Truthy(v) ==
    CASE v.t = "undef" -> FALSE
      [] v.t = "str" -> v.s # <<>>
      [] v.t = "num" -> v.n # 0
      [] OTHER -> TRUE

DigitChars == <<"0", "1", "2", "3", "4", "5", "6", "7", "8", "9">>

IsDigit(c) == \E d \in 1..10 : DigitChars[d] = c

DigitVal(c) == (CHOOSE d \in 1..10 : DigitChars[d] = c) - 1

\* String(n) for the single-digit numbers of the model
NumToString(k) == <<DigitChars[k + 1]>>

\* "prefix" + v : string concatenation with JavaScript's coercion of v
ConcatStr(prefix, v) ==
    CASE v.t = "str" -> Str(prefix \o v.s)
      [] v.t = "num" -> Str(prefix \o NumToString(v.n))
      [] OTHER -> Str(prefix)

-----------------------------------------------------------------------------
(* Dates: getTime() in milliseconds, or an Invalid Date (getTime() NaN).   *)

Date(ms) == [valid |-> TRUE, ms |-> ms]
InvalidDate == [valid |-> FALSE, ms |-> 0]

\* a > b on Dates: false whenever either is invalid (NaN)
DateGT(a, b) == a.valid /\ b.valid /\ a.ms > b.ms

\* a >= b on Dates
DateGE(a, b) == a.valid /\ b.valid /\ a.ms >= b.ms

EpochMinute == <<"1","9","7","0","-","0","1","-","0","1","T","0","0",":","0","0",":">>
LastMinute1969 == <<"1","9","6","9","-","1","2","-","3","1","T","2","3",":","5","9",":">>

\* toISOString() of an instant within one minute of the epoch
Iso(ms) ==
    LET t == IF ms >= 0 THEN ms ELSE 60000 + ms
        d(k) == DigitChars[k + 1]
    IN  (IF ms >= 0 THEN EpochMinute ELSE LastMinute1969)
        \o <<d(t \div 10000), d((t \div 1000) % 10), ".",
             d((t \div 100) % 10), d((t \div 10) % 10), d(t % 10), "Z">>

\* Date.parse of an ISO-8601 string within one minute of the epoch; any other
\* string of the model is not a date
DateParse(s) ==
    LET head == SubSeq(s, 1, 17)
        v(i) == DigitVal(s[i])
        t == v(18) * 10000 + v(19) * 1000 + v(21) * 100 + v(22) * 10 + v(23)
    IN  IF /\ Len(s) = 24
           /\ head \in {EpochMinute, LastMinute1969}
           /\ \A i \in {18, 19, 21, 22, 23} : IsDigit(s[i])
           /\ s[20] = "." /\ s[24] = "Z"
           /\ t < 60000
        THEN Date(IF head = EpochMinute THEN t ELSE t - 60000)
        ELSE InvalidDate

\* new Date(v)
NewDate(v) ==
    CASE v.t = "str" -> DateParse(v.s)
      [] v.t = "num" -> Date(v.n)
      [] OTHER -> InvalidDate

-----------------------------------------------------------------------------
(* Log lines. A line is blank, not JSON ("bad"), the JSON value null, or a *)
(* JSON object with the optional fields of SessionEntry; content is        *)
(* message.content (Undef when there is no message).                       *)

Entry(sid, cwd, ts, type, summary, content) ==
    [kind |-> "obj", sessionId |-> sid, cwd |-> cwd, timestamp |-> ts,
     type |-> type, summary |-> summary, content |-> content]

NoFields == Entry(Undef, Undef, Undef, Undef, Undef, Undef)
BadLine == [NoFields EXCEPT !.kind = "bad"]
BlankLine == [NoFields EXCEPT !.kind = "blank"]
NullLine == [NoFields EXCEPT !.kind = "null"]

Placeholder ==
    <<"C","l","a","u","d","e"," ","C","o","d","e"," ","S","e","s","s","i","o","n">>
InvalidApiKey == <<"I","n","v","a","l","i","d"," ","A","P","I"," ","k","e","y">>
PleaseRunLogin == <<"P","l","e","a","s","e"," ","r","u","n"," ","/","l","o","g","i","n">>
FailureMark == <<"U+274C", " ">>
Home == <<"~">>
SummaryType == <<"s","u","m","m","a","r","y">>
UserType == <<"u","s","e","r">>

\* the locals of parseSessionFile before the loop
InitAcc(now) ==
    [sessionId |-> Str(<<>>), directory |-> Str(<<>>), description |-> Str(Placeholder),
     timestamp |-> Date(now), lastActivity |-> Date(0), isErrorSession |-> FALSE]

\* SeedFields with a later line's cwd filling a directory left empty
SeedFieldsFillsDirectory(a, e) ==
    IF a.sessionId = Str(<<>>) /\ Truthy(e.sessionId)
    THEN [a EXCEPT !.sessionId = e.sessionId,
                   !.directory = IF Truthy(e.cwd) THEN e.cwd ELSE Str(<<>>),
                   !.timestamp = NewDate(e.timestamp)]
    ELSE IF ~Truthy(a.directory) /\ Truthy(e.cwd)
         THEN [a EXCEPT !.directory = e.cwd]
         ELSE a

\* if (sessionId === "" && entry.sessionId) { sessionId, directory, timestamp }
SeedFields(a, e) ==
    IF a.sessionId = Str(<<>>) /\ Truthy(e.sessionId)
    THEN [a EXCEPT !.sessionId = e.sessionId,
                   !.directory = IF Truthy(e.cwd) THEN e.cwd ELSE Str(<<>>),
                   !.timestamp = NewDate(e.timestamp)]
    ELSE a

\* UpdateLastActivity without the comparison: the last timestamp wins
UpdateLastActivityLastWins(a, e) ==
    IF Truthy(e.timestamp) /\ NewDate(e.timestamp).valid
    THEN [a EXCEPT !.lastActivity = NewDate(e.timestamp)]
    ELSE a

\* if (entry.timestamp) { if (entryTime > lastActivity) lastActivity = entryTime }
UpdateLastActivity(a, e) ==
    IF Truthy(e.timestamp) /\ DateGT(NewDate(e.timestamp), a.lastActivity)
    THEN [a EXCEPT !.lastActivity = NewDate(e.timestamp)]
    ELSE a

\* the description set from message content
ContentDescription(c) ==
    Substring(c, 0, 100) \o (IF Len(c) > 100 THEN <<".", ".", ".">> ELSE <<>>)

\* ContentEligible with the bound off by one (<= 200)
ContentEligibleUpTo200(c) == c.t = "str" /\ Len(c.s) > 0 /\ Len(c.s) <= 200

\* may message content c set the description
ContentEligible(c) == c.t = "str" /\ Len(c.s) > 0 /\ Len(c.s) < 200

\* entry.summary.includes(...) || ...  (a TypeError when summary is a number)
SummaryIsError(sm) ==
    sm.t = "str" /\ (Includes(sm.s, InvalidApiKey) \/ Includes(sm.s, PleaseRunLogin))

\* SelectDescription where a summary is taken only while the placeholder is held
SelectDescriptionFirstSummary(a, e) ==
    IF e.type = Str(SummaryType) /\ Truthy(e.summary) /\ a.description = Str(Placeholder)
    THEN IF e.summary.t = "num"
         THEN [a EXCEPT !.description = e.summary]
         ELSE [a EXCEPT !.description = e.summary,
                        !.isErrorSession = a.isErrorSession \/ SummaryIsError(e.summary)]
    ELSE IF /\ ~(e.type = Str(SummaryType) /\ Truthy(e.summary))
            /\ Truthy(e.content) /\ a.description = Str(Placeholder)
            /\ e.content.t = "str" /\ Len(e.content.s) > 0 /\ Len(e.content.s) < 200
         THEN [a EXCEPT !.description =
                 Str(Substring(e.content.s, 0, 100)
                     \o (IF Len(e.content.s) > 100 THEN <<".", ".", ".">> ELSE <<>>))]
         ELSE a

\* SelectDescription where message content is taken whatever the description holds
SelectDescriptionLastContent(a, e) ==
    IF e.type = Str(SummaryType) /\ Truthy(e.summary)
    THEN IF e.summary.t = "num"
         THEN [a EXCEPT !.description = e.summary]
         ELSE [a EXCEPT !.description = e.summary,
                        !.isErrorSession = a.isErrorSession \/ SummaryIsError(e.summary)]
    ELSE IF Truthy(e.content) /\ e.content.t = "str" /\ Len(e.content.s) < 200
         THEN [a EXCEPT !.description =
                 Str(Substring(e.content.s, 0, 100)
                     \o (IF Len(e.content.s) > 100 THEN <<".", ".", ".">> ELSE <<>>))]
         ELSE a

\* the summary / message-content branches; a number summary is assigned and then
\* .includes throws, which ends the line with the assignment kept
SelectDescription(a, e) ==
    IF e.type = Str(SummaryType) /\ Truthy(e.summary)
    THEN IF e.summary.t = "num"
         THEN [a EXCEPT !.description = e.summary]
         ELSE [a EXCEPT !.description = e.summary,
                        !.isErrorSession = a.isErrorSession \/ SummaryIsError(e.summary)]
    ELSE IF Truthy(e.content) /\ a.description = Str(Placeholder) /\ ContentEligible(e.content)
         THEN [a EXCEPT !.description = Str(ContentDescription(e.content.s))]
         ELSE a

\* one iteration of the loop over lines (blank lines were filtered out before it)
ParseLine(a, ln) ==
    IF ln.kind # "obj"
    THEN a
    ELSE SelectDescription(UpdateLastActivity(SeedFields(a, ln), ln), ln)

-----------------------------------------------------------------------------
(* File names and the end of parseSessionFile *)

IdLen == 36
JsonlExt == <<".", "j", "s", "o", "n", "l">>
IdChars == {"a", "b", "c", "d", "e", "f", "-"} \cup {DigitChars[d] : d \in 1..10}

\* filePath.split("/").pop()
Basename(path) ==
    LET slashes == {i \in 1..Len(path) : path[i] = "/"}
        last == IF slashes = {} THEN 0 ELSE CHOOSE i \in slashes : \A j \in slashes : j <= i
    IN  SubSeq(path, last + 1, Len(path))

\* FilenameId with the pattern anchored at the start of the name as well
FilenameIdWholeName(path) ==
    LET f == Basename(path)
        n == Len(f) - Len(JsonlExt)
    IN  IF EndsWith(f, JsonlExt) /\ n = IdLen /\ \A i \in 1..IdLen : f[i] \in IdChars
        THEN SubSeq(f, 1, n)
        ELSE <<>>

\* filename.match(/([a-f0-9-]{36})\.jsonl$/): match[1], or <<>> when there is no match
FilenameId(path) ==
    LET f == Basename(path)
        n == Len(f) - Len(JsonlExt)
        id == SubSeq(f, n - IdLen + 1, n)
    IN  IF EndsWith(f, JsonlExt) /\ n >= IdLen /\ \A i \in 1..IdLen : id[i] \in IdChars
        THEN id
        ELSE <<>>

NoSession ==
    [ok |-> FALSE, id |-> Undef, description |-> Undef, directory |-> Undef,
     timestamp |-> InvalidDate, lastActivity |-> InvalidDate, filePath |-> <<>>]

\* RecoveredId without the filename fallback
RecoveredIdContentOnly(a, f) == a.sessionId

\* sessionId after the filename fallback
RecoveredId(a, f) ==
    IF Truthy(a.sessionId) THEN a.sessionId ELSE Str(FilenameId(f.path))

\* FinalDescription without the failure mark
FinalDescriptionUnmarked(a) == a.description

\* description after the error-session rewrite
FinalDescription(a) ==
    IF a.isErrorSession THEN ConcatStr(FailureMark, a.description) ELSE a.description

\* directory after the error-session default and the directory || "~" of the return
FinalDirectory(a) == IF Truthy(a.directory) THEN a.directory ELSE Str(Home)

\* timestamp after "if (!timestamp || timestamp.getTime() === 0)": the file's mtime,
\* or new Date() when stat throws
FinalTimestamp(a, f, now) ==
    IF a.timestamp.valid /\ a.timestamp.ms = 0
    THEN IF f.statOk THEN Date(f.mtime) ELSE Date(now)
    ELSE a.timestamp

\* lastActivity.getTime() > 0 ? lastActivity : timestamp
FinalLastActivity(a, f, now) ==
    IF a.lastActivity.valid /\ a.lastActivity.ms > 0
    THEN a.lastActivity
    ELSE FinalTimestamp(a, f, now)

\* the code after the loop: filename fallback, null when there is no id, the rewrites
\* and the returned object
FinishSession(a, f, now) ==
    IF ~Truthy(RecoveredId(a, f))
    THEN NoSession
    ELSE [ok |-> TRUE, id |-> RecoveredId(a, f), description |-> FinalDescription(a),
          directory |-> FinalDirectory(a), timestamp |-> FinalTimestamp(a, f, now),
          lastActivity |-> FinalLastActivity(a, f, now), filePath |-> f.path]

-----------------------------------------------------------------------------
(* Inputs of parseSessionFile: the lines a log file may hold and the files *)

MaxLines == 3       \* lines per file
ParseNow == 50000   \* new Date() while parsing
FileMtime == 40000  \* stats.mtime of the parsed file
T1 == 1000          \* timestamps carried by lines, in increasing order
T2 == 2000
T3 == 3000
TBefore == 1000     \* distance before the epoch of a pre-1970 timestamp

LineCap == 500

s1 == <<"s", "1">>
s2 == <<"s", "2">>
DirP == <<"/", "p">>
DirQ == <<"/", "q">>

LineDomain ==
    << BadLine,                                                               \*  1
       BlankLine,                                                             \*  2
       NoFields,                                                              \*  3
       Entry(Str(s1), Str(DirP), Str(Iso(T1)), Str(UserType), Undef, Undef),  \*  4
       Entry(Str(s2), Str(DirQ), Str(Iso(T3)), Undef, Undef, Undef),          \*  5
       Entry(Str(s1), Undef, Str(Iso(T2)), Undef, Undef, Undef),              \*  6
       Entry(Str(s2), Str(DirQ), Undef, Undef, Undef, Undef),                 \*  7
       Entry(Undef, Str(DirQ), Str(Iso(T3)), Undef, Undef, Undef),            \*  8
       Entry(Undef, Undef, Str(Iso(T2)), Undef, Undef, Undef),                \*  9
       Entry(Str(s1), Str(DirP), Str(Iso(0)), Undef, Undef, Undef),           \* 10
       Entry(Str(s2), Undef, Str(Iso(0 - TBefore)), Undef, Undef, Undef),     \* 11
       Entry(Str(s1), Undef, Str(<<"n", "o", "w">>), Undef, Undef, Undef),    \* 12
       Entry(Str(<<>>), Str(DirP), Str(Iso(T1)), Undef, Undef, Undef),        \* 13
       Entry(Num(7), Str(DirP), Str(Iso(T1)), Undef, Undef, Undef),           \* 14
       Entry(Undef, Undef, Undef, Str(SummaryType), Str(<<"A">>), Undef),     \* 15
       Entry(Undef, Undef, Str(Iso(T2)), Str(SummaryType), Str(<<"B">>), Undef), \* 16
       Entry(Undef, Undef, Undef, Str(SummaryType), Str(<<>>), Str(<<"h", "i">>)), \* 17
       Entry(Undef, Undef, Undef, Str(SummaryType), Str(Placeholder), Undef), \* 18
       Entry(Undef, Undef, Undef, Str(UserType), Undef, Str(<<"m">>)),        \* 19
       Entry(Undef, Undef, Undef, Str(UserType), Undef, Str(Rep("b", 100))),  \* 20
       Entry(Undef, Undef, Undef, Str(UserType), Undef, Str(Rep("c", 101))),  \* 21
       Entry(Undef, Undef, Undef, Str(UserType), Undef, Str(Rep("d", 199))),  \* 22
       Entry(Undef, Undef, Undef, Str(UserType), Undef, Str(Rep("e", 200))),  \* 23
       Entry(Undef, Undef, Undef, Str(UserType), Undef, Str(Rep("f", 250))),  \* 24
       Entry(Undef, Undef, Undef, Str(UserType), Undef, Arr),                 \* 25
       Entry(Undef, Undef, Undef, Str(UserType), Undef, Str(<<>>)),           \* 26
       Entry(Undef, Undef, Undef, Str(SummaryType), Str(InvalidApiKey), Undef), \* 27
       Entry(Undef, Undef, Undef, Str(UserType), Undef, Str(PleaseRunLogin)), \* 28
       Entry(Undef, Undef, Undef, Str(SummaryType), Num(5), Undef),           \* 29
       NullLine,                                                              \* 30
       Entry(Undef, Str(<<"/">>), Str(Iso(T1)), Undef, Undef, Undef),         \* 31
       Entry(Undef, Str(<<>>), Str(Iso(T1)), Undef, Undef, Undef),            \* 32
       Entry(Undef, Num(7), Undef, Undef, Undef, Undef),                      \* 33
       Entry(Undef, Undef, Undef, Str(UserType), Undef, Str(Placeholder)) >>  \* 34

\* a file of the model draws its lines from one of two groups: lines about identity
\* and time, or lines about the description
SeedGroup == 1..14
DescGroup == {1, 2, 4, 34} \cup (15..30)
LineGroups == {SeedGroup, DescGroup}

SameGroup(ls, i) ==
    \E g \in LineGroups : i \in g /\ \A k \in 1..Len(ls) : ls[k] \in g

Uuid == Rep("a", 8) \o <<"-">> \o Rep("1", 4) \o <<"-">> \o Rep("4", 4) \o <<"-">>
        \o Rep("b", 4) \o <<"-">> \o Rep("0", 12)
ProjectDir == <<"/", "r", "/", "p", "/">>

\* the files handed to parseSessionFile
ParseFiles ==
    { [path |-> ProjectDir \o Uuid \o JsonlExt, mtime |-> FileMtime,
       statOk |-> TRUE, readable |-> TRUE],
      [path |-> ProjectDir \o <<"x", "_">> \o Uuid \o JsonlExt, mtime |-> FileMtime,
       statOk |-> FALSE, readable |-> TRUE],
      [path |-> ProjectDir \o <<"G">> \o SubSeq(Uuid, 2, IdLen) \o JsonlExt, mtime |-> FileMtime,
       statOk |-> TRUE, readable |-> TRUE],
      [path |-> ProjectDir \o <<"l", "o", "g">> \o JsonlExt, mtime |-> FileMtime,
       statOk |-> TRUE, readable |-> FALSE] }

\* the non-blank lines, capped: .filter((line) => line.trim()).slice(0, 500)
NonBlank(ls) ==
    LET keep(i) == LineDomain[i].kind # "blank" IN SelectSeq(ls, keep)

Examined(ls) == SubSeq(NonBlank(ls), 1, Min(LineCap, Len(NonBlank(ls))))

\* the loop over the lines ls, from the locals a: the first half of the lines, then
\* the second half from the locals the first half leaves (mid, computed before the
\* second half is entered)
RECURSIVE FoldLines(_, _)
FoldLines(a, ls) ==
    IF ls = <<>> THEN a
    ELSE IF Len(ls) = 1 THEN ParseLine(a, LineDomain[ls[1]])
    ELSE LET half == Len(ls) \div 2
             mid == FoldLines(a, SubSeq(ls, 1, half))
         IN  IF mid.sessionId = mid.sessionId
             THEN FoldLines(mid, SubSeq(ls, half + 1, Len(ls)))
             ELSE a

-----------------------------------------------------------------------------
(* parseSessionFile as a process: SpecParse *)

ParseInit ==
    /\ ppc = "read"
    /\ pnow = ParseNow
    /\ lines = <<>>
    /\ acc = InitAcc(ParseNow)
    /\ pfile \in ParseFiles
    /\ result = NoSession

\* await readFile(filePath, "utf-8") succeeds
ReadFile ==
    /\ ppc = "read"
    /\ pfile.readable
    /\ ppc' = "loop"
    /\ UNCHANGED <<pnow, lines, acc, pfile, result, loadVars, cmdVars, projVars, launchVars>>

\* readFile throws: the outer catch returns null
ReadFileFails ==
    /\ ppc = "read"
    /\ ~pfile.readable
    /\ ppc' = "returned"
    /\ result' = NoSession
    /\ UNCHANGED <<pnow, lines, acc, pfile, loadVars, cmdVars, projVars, launchVars>>

\* the file's next line: filtered out when blank, folded when within the cap
NextLine(i) ==
    /\ ppc = "loop"
    /\ Len(lines) < MaxLines
    /\ SameGroup(lines, i)
    /\ lines' = Append(lines, i)
    /\ acc' = IF LineDomain[i].kind # "blank" /\ Len(NonBlank(lines)) < LineCap
              THEN ParseLine(acc, LineDomain[i])
              ELSE acc
    /\ UNCHANGED <<ppc, pnow, pfile, result, loadVars, cmdVars, projVars, launchVars>>

MaxLate == 2        \* lines of a long file after its first LineCap lines

\* the lines a long file is filled with, and the lines that follow them
RunLines == {1, 3}
LateLines == {2, 4, 5, 15, 19}

\* a long file's first lines, LineCap - 1 or LineCap times the same line: the loop
\* runs over them one by one
ReadRun(i, n) ==
    /\ ppc = "loop"
    /\ lines = <<>>
    /\ lines' = [k \in 1..n |-> i]
    /\ acc' = FoldLines(acc, Examined(lines'))
    /\ UNCHANGED <<ppc, pnow, pfile, result, loadVars, cmdVars, projVars, launchVars>>

\* LateLine without .slice(0, 500)
LateLineUncapped(i) ==
    /\ ppc = "loop"
    /\ Len(lines) >= LineCap - 1
    /\ Len(lines) < LineCap + MaxLate
    /\ lines' = Append(lines, i)
    /\ acc' = IF LineDomain[i].kind # "blank" THEN ParseLine(acc, LineDomain[i]) ELSE acc
    /\ UNCHANGED <<ppc, pnow, pfile, result, loadVars, cmdVars, projVars, launchVars>>

\* LateLine with .slice(0, 500) applied before .filter
LateLineSliceFirst(i) ==
    /\ ppc = "loop"
    /\ Len(lines) >= LineCap - 1
    /\ Len(lines) < LineCap + MaxLate
    /\ lines' = Append(lines, i)
    /\ acc' = IF LineDomain[i].kind # "blank" /\ Len(lines) < LineCap
              THEN ParseLine(acc, LineDomain[i])
              ELSE acc
    /\ UNCHANGED <<ppc, pnow, pfile, result, loadVars, cmdVars, projVars, launchVars>>

\* a line of a long file after its run: filtered out when blank, folded when it is
\* among the first LineCap non-blank lines
LateLine(i) ==
    /\ ppc = "loop"
    /\ Len(lines) >= LineCap - 1
    /\ Len(lines) < LineCap + MaxLate
    /\ lines' = Append(lines, i)
    /\ acc' = IF LineDomain[i].kind # "blank" /\ Len(NonBlank(lines)) < LineCap
              THEN ParseLine(acc, LineDomain[i])
              ELSE acc
    /\ UNCHANGED <<ppc, pnow, pfile, result, loadVars, cmdVars, projVars, launchVars>>

\* end of file with no non-blank line: if (lines.length === 0) return null
ReturnEmpty ==
    /\ ppc = "loop"
    /\ Examined(lines) = <<>>
    /\ ppc' = "returned"
    /\ result' = NoSession
    /\ UNCHANGED <<pnow, lines, acc, pfile, loadVars, cmdVars, projVars, launchVars>>

\* end of file after the loop: the fallback, the rewrites and the return
ReturnSession ==
    /\ ppc = "loop"
    /\ Examined(lines) # <<>>
    /\ ppc' = "returned"
    /\ result' = FinishSession(acc, pfile, pnow)
    /\ UNCHANGED <<pnow, lines, acc, pfile, loadVars, cmdVars, projVars, launchVars>>

\* the whole of parseSessionFile on a file whose lines are known
ParseSessionFile(f, now) ==
    IF ~f.readable \/ Examined(f.lines) = <<>>
    THEN NoSession
    ELSE FinishSession(FoldLines(InitAcc(now), Examined(f.lines)), f, now)

-----------------------------------------------------------------------------
(* The projects directory scanned by getAllSessionFiles *)

MaxFileSize == 50 * 1024 * 1024
TopK == 15
TIMEOUT_MS == 10000

Uuid2 == Rep("b", 8) \o SubSeq(Uuid, 9, IdLen)
Uuid3 == Rep("c", 8) \o SubSeq(Uuid, 9, IdLen)
Dir1 == <<"/", "r", "/", "p", "1", "/">>
Dir2 == <<"/", "r", "/", "p", "2", "/">>
Dir3 == <<"/", "r", "/", "p", "3", "/">>
TxtExt == <<".", "t", "x", "t">>

File(path, mtime, size, statOk, readable, ls) ==
    [path |-> path, mtime |-> mtime, size |-> size, statOk |-> statOk,
     readable |-> readable, lines |-> ls]

ManyFiles == 18     \* log files in the busiest project directory

\* a project directory of ManyFiles small logs, listed in an order unrelated to their
\* modification times
BusyDir ==
    [i \in 1..ManyFiles |->
        File(Dir3 \o Rep("f", i) \o JsonlExt, FileMtime + ((i * 3) % 5), 10, TRUE, TRUE, <<4>>)]

\* readdir of the root, in listing order: each entry is a directory (with its own
\* listing, which may fail) or a plain file
RootEntries ==
    << [isDirectory |-> TRUE, listable |-> TRUE,
        files |-> << File(Dir1 \o Uuid \o JsonlExt, FileMtime - 2, 10, TRUE, TRUE, <<4, 15>>),
                     File(Dir1 \o <<"b", "i", "g">> \o JsonlExt, FileMtime, MaxFileSize + 1, TRUE, TRUE, <<5>>),
                     File(Dir1 \o <<"n">> \o TxtExt, FileMtime, 10, TRUE, TRUE, <<5>>),
                     File(Dir1 \o Uuid2 \o JsonlExt, FileMtime - 1, MaxFileSize, TRUE, TRUE, <<1>>) >>],
       [isDirectory |-> FALSE, listable |-> FALSE, files |-> <<>>],
       [isDirectory |-> TRUE, listable |-> FALSE,
        files |-> << File(Dir2 \o Uuid \o JsonlExt, FileMtime, 10, TRUE, TRUE, <<5>>) >>],
       [isDirectory |-> TRUE, listable |-> TRUE,
        files |-> << File(Dir2 \o <<"l", "o", "g">> \o JsonlExt, FileMtime, 10, TRUE, TRUE, <<1, 3>>),
                     File(Dir2 \o <<"g", "o", "n", "e">> \o JsonlExt, FileMtime, 10, FALSE, TRUE, <<5>>),
                     File(Dir2 \o Uuid3 \o JsonlExt, FileMtime, 10, TRUE, TRUE, <<4, 19>>),
                     File(Dir2 \o <<"x">> \o JsonlExt, FileMtime - 1, 10, TRUE, FALSE, <<5>>) >>] >>

\* a root with one project directory that holds one log
QuietRoot ==
    << [isDirectory |-> TRUE, listable |-> TRUE,
        files |-> << File(Dir1 \o Uuid \o JsonlExt, FileMtime, 10, TRUE, TRUE, <<4>>) >>] >>

\* the same root with the busy project directory listed last
BusyRoot == Append(RootEntries, [isDirectory |-> TRUE, listable |-> TRUE, files |-> BusyDir])

\* ScanDir without the size test
ScanDirNoSizeLimit(d) ==
    LET keep(f) == EndsWith(f.path, JsonlExt) /\ f.statOk
    IN  IF d.isDirectory /\ d.listable THEN SelectSeq(d.files, keep) ELSE <<>>

\* ScanDir where a failing stat ends the directory's loop instead of skipping the file
ScanDirStatAborts(d) ==
    LET isLog(f) == EndsWith(f.path, JsonlExt)
        logs == SelectSeq(d.files, isLog)
        failing == {i \in 1..Len(logs) : ~logs[i].statOk}
        upto == IF failing = {} THEN Len(logs)
                ELSE (CHOOSE i \in failing : \A j \in failing : i <= j) - 1
        keep(f) == ~(f.size > MaxFileSize)
    IN  IF d.isDirectory /\ d.listable THEN SelectSeq(SubSeq(logs, 1, upto), keep) ELSE <<>>

\* the files of one project directory that the scan keeps: .jsonl, stat succeeds,
\* size not above maxFileSize
ScanDir(d) ==
    LET keep(f) == EndsWith(f.path, JsonlExt) /\ f.statOk /\ ~(f.size > MaxFileSize)
    IN  IF d.isDirectory /\ d.listable THEN SelectSeq(d.files, keep) ELSE <<>>

RECURSIVE ScanDirs(_)
ScanDirs(ds) == IF ds = <<>> THEN <<>> ELSE ScanDir(Head(ds)) \o ScanDirs(Tail(ds))

\* getAllSessionFiles: an unlistable root gives no files
GetAllSessionFiles(ok, entries) == IF ok THEN ScanDirs(entries) ELSE <<>>

RECURSIVE InsertByMtime(_, _)
\* insert f after every element whose mtime is >= f's (a stable descending sort)
InsertByMtime(q, f) ==
    IF q = <<>> THEN <<f>>
    ELSE IF Head(q).mtime >= f.mtime THEN <<Head(q)>> \o InsertByMtime(Tail(q), f)
         ELSE <<f>> \o q

RECURSIVE SortByMtimeDesc(_)
\* .sort((a, b) => b.modifiedTime.getTime() - a.modifiedTime.getTime())
SortByMtimeDesc(q) ==
    IF q = <<>> THEN <<>>
    ELSE InsertByMtime(SortByMtimeDesc(SubSeq(q, 1, Len(q) - 1)), q[Len(q)])

\* RecentFiles without the sort: the first files in scan order
RecentFilesUnsorted(all) == SubSeq(all, 1, Min(TopK, Len(all)))

\* recentFiles: the sort and .slice(0, 15)
RecentFiles(all) == SubSeq(SortByMtimeDesc(all), 1, Min(TopK, Len(all)))

-----------------------------------------------------------------------------
(* SessionSearch components and loadSessions: Spec *)

NumComps == 2       \* SessionSearch component instances
TickMs == 5000      \* milliseconds the clock advances in one step
MaxTicks == 3       \* steps of the clock

Comps == 1..NumComps

NoError == "none"
TimeoutError == "Session loading timed out"
Running == {"scanning", "parsing"}

LoadStart(entries) ==
    /\ isGlobalLoading = FALSE
    /\ clock = ParseNow
    /\ mounted = [c \in Comps |-> FALSE]
    /\ isLoading = [c \in Comps |-> TRUE]
    /\ error = [c \in Comps |-> NoError]
    /\ sessions = [c \in Comps |-> <<>>]
    /\ pc = [c \in Comps |-> "idle"]
    /\ guarded = [c \in Comps |-> FALSE]
    /\ startTime = [c \in Comps |-> 0]
    /\ recent = [c \in Comps |-> <<>>]
    /\ idx = [c \in Comps |-> 1]
    /\ local = [c \in Comps |-> <<>>]
    /\ scanCount = 0
    /\ rootListable \in BOOLEAN
    /\ projects = entries

LoadInit == LoadStart(RootEntries)

\* Date.now() - startTime > TIMEOUT_MS
BudgetExceeded(c) == clock - startTime[c] > TIMEOUT_MS

\* loadSessions up to its first await: startTime, setIsLoading(true), setError(null),
\* and the call of getAllSessionFiles
StartLoad(c, underGuard) ==
    /\ startTime' = [startTime EXCEPT ![c] = clock]
    /\ isLoading' = [isLoading EXCEPT ![c] = TRUE]
    /\ error' = [error EXCEPT ![c] = NoError]
    /\ pc' = [pc EXCEPT ![c] = "scanning"]
    /\ guarded' = [guarded EXCEPT ![c] = underGuard]
    /\ recent' = [recent EXCEPT ![c] = <<>>]
    /\ idx' = [idx EXCEPT ![c] = 1]
    /\ local' = [local EXCEPT ![c] = <<>>]
    /\ scanCount' = scanCount + 1

\* useEffect on mount with the flag clear: load() sets the flag and calls loadSessions
MountLoad(c) ==
    /\ ~mounted[c]
    /\ ~isGlobalLoading
    /\ mounted' = [mounted EXCEPT ![c] = TRUE]
    /\ isGlobalLoading' = TRUE
    /\ StartLoad(c, TRUE)
    /\ UNCHANGED <<clock, sessions, rootListable, projects,
                   parseVars, cmdVars, projVars, launchVars>>

\* useEffect on mount with the flag set: load() does nothing
MountSkipped(c) ==
    /\ ~mounted[c]
    /\ isGlobalLoading
    /\ mounted' = [mounted EXCEPT ![c] = TRUE]
    /\ UNCHANGED <<isGlobalLoading, clock, isLoading, error, sessions, pc, guarded,
                   startTime, recent, idx, local, scanCount, rootListable, projects,
                   parseVars, cmdVars, projVars, launchVars>>

\* the Retry action of the error view: onAction={loadSessions}
Retry(c) ==
    /\ mounted[c]
    /\ ~isLoading[c]
    /\ error[c] # NoError
    /\ pc[c] \notin Running
    /\ StartLoad(c, FALSE)
    /\ UNCHANGED <<isGlobalLoading, clock, mounted, sessions, rootListable, projects,
                   parseVars, cmdVars, projVars, launchVars>>

\* EndLoad where load() does not clear the flag
EndLoadKeepsFlag(c) ==
    /\ isLoading' = [isLoading EXCEPT ![c] = FALSE]
    /\ isGlobalLoading' = isGlobalLoading

\* the end of loadSessions (finally) and, under the guard, of load()
EndLoad(c) ==
    /\ isLoading' = [isLoading EXCEPT ![c] = FALSE]
    /\ isGlobalLoading' = IF guarded[c] THEN FALSE ELSE isGlobalLoading

\* getAllSessionFiles returned within the budget: sort and slice
ScanDone(c) ==
    /\ pc[c] = "scanning"
    /\ ~BudgetExceeded(c)
    /\ recent' = [recent EXCEPT ![c] = RecentFiles(GetAllSessionFiles(rootListable, projects))]
    /\ pc' = [pc EXCEPT ![c] = "parsing"]
    /\ UNCHANGED <<isGlobalLoading, clock, mounted, isLoading, error, sessions, guarded,
                   startTime, idx, local, scanCount, rootListable, projects,
                   parseVars, cmdVars, projVars, launchVars>>

\* getAllSessionFiles returned after the budget: throw new Error("Session loading
\* timeout"), caught by setError(...timed out...)
ScanTimedOut(c) ==
    /\ pc[c] = "scanning"
    /\ BudgetExceeded(c)
    /\ error' = [error EXCEPT ![c] = TimeoutError]
    /\ pc' = [pc EXCEPT ![c] = "failed"]
    /\ EndLoad(c)
    /\ UNCHANGED <<clock, mounted, sessions, guarded, startTime, recent, idx, local,
                   scanCount, rootListable, projects,
                   parseVars, cmdVars, projVars, launchVars>>

\* PushSession where a file without a Session empties the list collected so far
PushSessionOrReset(q, s) == IF s.ok THEN Append(q, s) ELSE <<>>

\* sessions.push(session) when parseSessionFile returned one
PushSession(q, s) == IF s.ok THEN Append(q, s) ELSE q

\* ParseNext that publishes the list after every file
ParseNextPublishes(c) ==
    /\ pc[c] = "parsing"
    /\ idx[c] <= Len(recent[c])
    /\ clock - startTime[c] <= TIMEOUT_MS
    /\ local' = [local EXCEPT ![c] = PushSession(@, ParseSessionFile(recent[c][idx[c]], clock))]
    /\ sessions' = [sessions EXCEPT ![c] = local'[c]]
    /\ idx' = [idx EXCEPT ![c] = @ + 1]
    /\ UNCHANGED <<isGlobalLoading, clock, mounted, isLoading, error, pc, guarded,
                   startTime, recent, scanCount, rootListable, projects,
                   parseVars, cmdVars, projVars, launchVars>>

\* one iteration of the loop over recentFiles within the budget
ParseNext(c) ==
    /\ pc[c] = "parsing"
    /\ idx[c] <= Len(recent[c])
    /\ ~BudgetExceeded(c)
    /\ local' = [local EXCEPT ![c] = PushSession(@, ParseSessionFile(recent[c][idx[c]], clock))]
    /\ idx' = [idx EXCEPT ![c] = @ + 1]
    /\ UNCHANGED <<isGlobalLoading, clock, mounted, isLoading, error, sessions, pc, guarded,
                   startTime, recent, scanCount, rootListable, projects,
                   parseVars, cmdVars, projVars, launchVars>>

\* the loop ran over every file: setSessions(sessions)
PublishAll(c) ==
    /\ pc[c] = "parsing"
    /\ idx[c] > Len(recent[c])
    /\ sessions' = [sessions EXCEPT ![c] = local[c]]
    /\ pc' = [pc EXCEPT ![c] = "published"]
    /\ EndLoad(c)
    /\ UNCHANGED <<clock, mounted, error, guarded, startTime, recent, idx, local,
                   scanCount, rootListable, projects,
                   parseVars, cmdVars, projVars, launchVars>>

\* PublishPartial that drops the Sessions collected before the break
PublishPartialDropsWork(c) ==
    /\ pc[c] = "parsing"
    /\ idx[c] <= Len(recent[c])
    /\ clock - startTime[c] > TIMEOUT_MS
    /\ sessions' = [sessions EXCEPT ![c] = <<>>]
    /\ pc' = [pc EXCEPT ![c] = "published"]
    /\ isLoading' = [isLoading EXCEPT ![c] = FALSE]
    /\ isGlobalLoading' = IF guarded[c] THEN FALSE ELSE isGlobalLoading
    /\ UNCHANGED <<clock, mounted, error, guarded, startTime, recent, idx, local,
                   scanCount, rootListable, projects,
                   parseVars, cmdVars, projVars, launchVars>>

\* PublishPartial that publishes and then fails like the check after the scan
PublishPartialThenFails(c) ==
    /\ pc[c] = "parsing"
    /\ idx[c] <= Len(recent[c])
    /\ clock - startTime[c] > TIMEOUT_MS
    /\ sessions' = [sessions EXCEPT ![c] = local[c]]
    /\ error' = [error EXCEPT ![c] = TimeoutError]
    /\ pc' = [pc EXCEPT ![c] = "failed"]
    /\ isLoading' = [isLoading EXCEPT ![c] = FALSE]
    /\ isGlobalLoading' = IF guarded[c] THEN FALSE ELSE isGlobalLoading
    /\ UNCHANGED <<clock, mounted, guarded, startTime, recent, idx, local,
                   scanCount, rootListable, projects, parseVars, cmdVars, projVars, launchVars>>

\* the budget check before a file fails: break, then setSessions(sessions)
PublishPartial(c) ==
    /\ pc[c] = "parsing"
    /\ idx[c] <= Len(recent[c])
    /\ BudgetExceeded(c)
    /\ sessions' = [sessions EXCEPT ![c] = local[c]]
    /\ pc' = [pc EXCEPT ![c] = "published"]
    /\ EndLoad(c)
    /\ UNCHANGED <<clock, mounted, error, guarded, startTime, recent, idx, local,
                   scanCount, rootListable, projects,
                   parseVars, cmdVars, projVars, launchVars>>

\* time passes while a file-system call is awaited
Tick ==
    /\ clock + TickMs <= ParseNow + MaxTicks * TickMs
    /\ \E c \in Comps : pc[c] \in Running
    /\ clock' = clock + TickMs
    /\ UNCHANGED <<isGlobalLoading, mounted, isLoading, error, sessions, pc, guarded,
                   startTime, recent, idx, local, scanCount, rootListable, projects,
                   parseVars, cmdVars, projVars, launchVars>>

-----------------------------------------------------------------------------
(* Launch command lines and their escaping for AppleScript: SpecCmd *)

MaxCmdLen == 2      \* length of the directory, path and id strings

Quote == "\""
Backslash == "\\"
Backquote == "U+0060"
CmdChars == {"a", Quote, Backslash, "$", "'", "/", "."}

CmdStrings == UNION {[1..n -> CmdChars] : n \in 0..MaxCmdLen}

CdOpen == <<"c", "d", " ", "\"">>
AndResume == <<"\"", " ", "&", "&", " ", "c", "l", "a", "u", "d", "e", " ", "-", "r", " ", "\"">>
AndAddDir == <<"\"", " ", "&", "&", " ", "c", "l", "a", "u", "d", "e", " ", "-", "-", "a", "d", "d", "-", "d", "i", "r", " ", "\"">>
DoScriptOpen == <<"t", "e", "l", "l", " ", "a", "p", "p", "l", "i", "c", "a", "t", "i", "o", "n", " ", "\"", "T", "e", "r", "m", "i", "n", "a", "l", "\"", " ", "t", "o", " ", "d", "o", " ", "s", "c", "r", "i", "p", "t", " ", "\"">>

\* `cd "${session.directory}" && claude -r "${session.id}"`
ResumeCommand(dir, id) == CdOpen \o dir \o AndResume \o id \o <<Quote>>

\* `cd "${targetDir}" && claude --add-dir "${item.path}"`
OpenCommand(dir, path) == CdOpen \o dir \o AndAddDir \o path \o <<Quote>>

\* item.path.includes(".") ? item.path.split("/").slice(0, -1).join("/") : item.path
TargetDir(path) ==
    LET slashes == {i \in 1..Len(path) : path[i] = "/"}
        last == IF slashes = {} THEN 1 ELSE CHOOSE i \in slashes : \A j \in slashes : j <= i
    IN  IF \E i \in 1..Len(path) : path[i] = "." THEN SubSeq(path, 1, last - 1) ELSE path

RECURSIVE ReplaceAll(_, _, _)
\* s.replace(/c/g, rep)
ReplaceAll(str, c, rep) ==
    IF str = <<>> THEN <<>>
    ELSE (IF Head(str) = c THEN rep ELSE <<Head(str)>>) \o ReplaceAll(Tail(str), c, rep)

\* command.replace(/\\/g, "\\\\").replace(/"/g, '\\"')
EscapeForAppleScript(cmd) ==
    ReplaceAll(ReplaceAll(cmd, Backslash, <<Backslash, Backslash>>), Quote, <<Backslash, Quote>>)

\* `tell application "Terminal" to do script "${escapedCommand}"`
DoScript(cmd) == DoScriptOpen \o EscapeForAppleScript(cmd) \o <<Quote>>

OsascriptOpen == <<"o", "s", "a", "s", "c", "r", "i", "p", "t", " ", "-", "e", " ", "'">>

\* `osascript -e '${osascriptCommand}'`, the line exec and execSync hand to /bin/sh
OsascriptLine(src) == OsascriptOpen \o src \o <<"'">>

RECURSIVE AppleScriptLiteral(_, _, _)
\* AppleScript reading a string literal from position i (just after its opening quote):
\* \\ and \" are escapes, an unescaped quote ends it. The text and the position of the
\* closing quote (0 when the literal never closes)
AppleScriptLiteral(src, i, out) ==
    IF i > Len(src) THEN [text |-> out, close |-> 0]
    ELSE IF src[i] = Quote THEN [text |-> out, close |-> i]
    ELSE IF src[i] = Backslash /\ i < Len(src)
         THEN AppleScriptLiteral(src, i + 2, Append(out, src[i + 1]))
         ELSE AppleScriptLiteral(src, i + 1, Append(out, src[i]))

\* osascript running the script: Terminal is handed the value of the literal after
\* do script
DoScriptText(src) == AppleScriptLiteral(src, Len(DoScriptOpen) + 1, <<>>)

\* the inputs of a launch: a session's directory and id (one of them arbitrary),
\* a Finder item's path, or a project's path
CmdInputs ==
    {[kind |-> "resume", dir |-> d, arg |-> s1, isDir |-> FALSE] : d \in CmdStrings}
    \cup {[kind |-> "resume", dir |-> DirP, arg |-> a, isDir |-> FALSE] : a \in CmdStrings}
    \cup {[kind |-> "open", dir |-> TargetDir(a), arg |-> a, isDir |-> b] :
              a \in CmdStrings, b \in BOOLEAN}
    \cup {[kind |-> "project", dir |-> a, arg |-> a, isDir |-> FALSE] : a \in CmdStrings}

CmdInit ==
    /\ cpc = "ready"
    /\ \E in \in CmdInputs : ckind = in.kind /\ cdir = in.dir /\ carg = in.arg /\ cisDir = in.isDir
    /\ command = <<>>
    /\ script = <<>>
    /\ typed = <<>>

\* ResumeSessionAction: resumeCommand
BuildResume ==
    /\ cpc = "ready" /\ ckind = "resume"
    /\ command' = ResumeCommand(cdir, carg)
    /\ cpc' = "built"
    /\ UNCHANGED <<cdir, carg, ckind, cisDir, script, typed, parseVars, loadVars, projVars, launchVars>>

\* ClaudeCodeLauncher: command
BuildOpen ==
    /\ cpc = "ready" /\ ckind = "open"
    /\ command' = OpenCommand(cdir, carg)
    /\ cpc' = "built"
    /\ UNCHANGED <<cdir, carg, ckind, cisDir, script, typed, parseVars, loadVars, projVars, launchVars>>

\* ProjectItem "Open with Claude Code": escapedCommand
BuildProject ==
    /\ cpc = "ready" /\ ckind = "project"
    /\ command' = OpenCommand(cdir, carg)
    /\ cpc' = "built"
    /\ UNCHANGED <<cdir, carg, ckind, cisDir, script, typed, parseVars, loadVars, projVars, launchVars>>

\* the command is escaped and wrapped into the AppleScript source
WrapScript ==
    /\ cpc = "built"
    /\ script' = DoScript(command)
    /\ cpc' = "scripted"
    /\ UNCHANGED <<cdir, carg, ckind, cisDir, command, typed, parseVars, loadVars, projVars, launchVars>>

\* osascript runs the script: Terminal's shell is handed the literal's text
RunScript ==
    /\ cpc = "scripted"
    /\ typed' = DoScriptText(script).text
    /\ cpc' = "shell"
    /\ UNCHANGED <<cdir, carg, ckind, cisDir, command, script, parseVars, loadVars, projVars, launchVars>>

-----------------------------------------------------------------------------
(* A launch through executeInTerminal, as ResumeSessionAction and          *)
(* ClaudeCodeLauncher call it: SpecLaunch. The command is built as in       *)
(* SpecCmd; executeInTerminal itself returns a successful result naming the *)
(* terminal used, returns an unsuccessful result, or raises.                *)

TerminalApps == {"Terminal", "iTerm"}

NoOutcome == [kind |-> "pending", terminal |-> "none"]
NoReport == [kind |-> "none", terminal |-> "none", manual |-> <<>>]
NoLaunchError == "none"
FailedToLaunch == "Failed to launch terminal"
RaisedMessage == "spawn error"

\* getManualCommand(command): the command in its unescaped, human-paste form
GetManualCommand(cmd) == cmd

\* showTerminalSuccessToast(result.terminalUsed, ...)
SuccessReport(t) == [kind |-> "success", terminal |-> t, manual |-> <<>>]

\* showTerminalErrorToast(getManualCommand(command), ...)
FailureReport(cmd) == [kind |-> "failure", terminal |-> "none", manual |-> GetManualCommand(cmd)]

LaunchIdle ==
    /\ loutcome = NoOutcome
    /\ report = NoReport
    /\ unhandled = FALSE
    /\ launchError = NoLaunchError
    /\ isLaunched = FALSE
    /\ launching = FALSE

\* the launches that go through executeInTerminal: a session resumed, a Finder item opened
LaunchInit ==
    /\ cpc = "ready"
    /\ \E in \in {i \in CmdInputs : i.kind \in {"resume", "open"}} :
          ckind = in.kind /\ cdir = in.dir /\ carg = in.arg /\ cisDir = in.isDir
    /\ command = <<>>
    /\ script = <<>>
    /\ typed = <<>>
    /\ LaunchIdle

\* the handler reaches await executeInTerminal(command); the launcher's effect has set
\* isLoading first
BeginExecute ==
    /\ cpc = "built"
    /\ cpc' = "executing"
    /\ launching' = (ckind = "open")
    /\ UNCHANGED <<cdir, carg, ckind, cisDir, command, script, typed, loutcome, report, unhandled,
                   launchError, isLaunched, parseVars, loadVars, projVars>>

\* executeInTerminal returns { success: true, terminalUsed }
ExecSucceeds(t) ==
    /\ cpc = "executing"
    /\ cpc' = "reported"
    /\ loutcome' = [kind |-> "success", terminal |-> t]
    /\ report' = SuccessReport(t)
    /\ isLaunched' = IF ckind = "open" THEN TRUE ELSE isLaunched
    /\ launching' = FALSE
    /\ UNCHANGED <<cdir, carg, ckind, cisDir, command, script, typed, unhandled, launchError,
                   parseVars, loadVars, projVars>>

\* executeInTerminal returns { success: false }
ExecUnsuccessful ==
    /\ cpc = "executing"
    /\ cpc' = "reported"
    /\ loutcome' = [kind |-> "unsuccessful", terminal |-> "none"]
    /\ report' = FailureReport(command)
    /\ launchError' = IF ckind = "open" THEN FailedToLaunch ELSE launchError
    /\ launching' = FALSE
    /\ UNCHANGED <<cdir, carg, ckind, cisDir, command, script, typed, unhandled, isLaunched,
                   parseVars, loadVars, projVars>>

\* executeInTerminal raises: ClaudeCodeLauncher's catch reports the failure;
\* ResumeSessionAction's handler has no catch and the error leaves it
ExecRaises ==
    /\ cpc = "executing"
    /\ cpc' = "reported"
    /\ loutcome' = [kind |-> "raised", terminal |-> "none"]
    /\ IF ckind = "open"
       THEN /\ report' = FailureReport(command)
            /\ launchError' = RaisedMessage
            /\ unhandled' = unhandled
       ELSE /\ report' = report
            /\ launchError' = launchError
            /\ unhandled' = TRUE
    /\ launching' = FALSE
    /\ UNCHANGED <<cdir, carg, ckind, cisDir, command, script, typed, isLaunched,
                   parseVars, loadVars, projVars>>

\* the Launch Again action of ClaudeCodeLauncher's main view
LaunchAgain ==
    /\ cpc = "reported"
    /\ ckind = "open"
    /\ ~launching
    /\ launchError = NoLaunchError
    /\ cpc' = "executing"
    /\ launching' = TRUE
    /\ launchError' = NoLaunchError
    /\ isLaunched' = FALSE
    /\ loutcome' = NoOutcome
    /\ report' = NoReport
    /\ UNCHANGED <<cdir, carg, ckind, cisDir, command, script, typed, unhandled,
                   parseVars, loadVars, projVars>>

-----------------------------------------------------------------------------
(* parseProject and extractProjectPath of the project browser: SpecProj   *)

MaxProjFiles == 3   \* files in a project directory

NoProject ==
    [ok |-> FALSE, name |-> <<>>, path |-> Undef, lastActivity |-> InvalidDate,
     exists |-> FALSE, encodedDirName |-> <<>>]

ProjName == <<"-", "r", "-", "p">>
ProjPath == <<"/", "r", "/", "-", "r", "-", "p", "/">>

\* the directories existsSync finds
ExistingDirs == {DirP}

\* what a file of a project directory may be: its extension, whether stat and readFile
\* succeed on it, and its lines (indices into LineDomain)
FileKinds ==
    { [ext |-> JsonlExt, statOk |-> TRUE, readable |-> TRUE, lines |-> <<4>>],
      [ext |-> JsonlExt, statOk |-> TRUE, readable |-> TRUE, lines |-> <<31, 30, 2, 1, 5, 4>>],
      [ext |-> JsonlExt, statOk |-> TRUE, readable |-> TRUE, lines |-> <<32, 3>>],
      [ext |-> JsonlExt, statOk |-> TRUE, readable |-> FALSE, lines |-> <<4>>],
      [ext |-> JsonlExt, statOk |-> FALSE, readable |-> TRUE, lines |-> <<5>>],
      [ext |-> TxtExt, statOk |-> TRUE, readable |-> TRUE, lines |-> <<5>>],
      [ext |-> JsonlExt, statOk |-> TRUE, readable |-> TRUE, lines |-> <<33, 4>>] }

ProjMtimes == {FileMtime, FileMtime + 1}

\* the i-th entry of the listing, of kind k and modified at m
ProjFile(i, k, m) ==
    [path |-> ProjPath \o Rep("f", i) \o k.ext, mtime |-> m, statOk |-> k.statOk,
     readable |-> k.readable, lines |-> k.lines]

RECURSIVE FirstCwd(_)
\* the loop of extractProjectPath over the lines: the first cwd that is truthy and not
\* "/"; blank lines are skipped, and so are lines on which JSON.parse or entry.cwd throws
FirstCwd(ls) ==
    IF ls = <<>> THEN Undef
    ELSE LET e == LineDomain[Head(ls)]
         IN  IF e.kind = "obj" /\ Truthy(e.cwd) /\ e.cwd # Str(<<"/">>)
             THEN e.cwd
             ELSE FirstCwd(Tail(ls))

\* extractProjectPath: null when the file cannot be read or no line yields a path
ExtractProjectPath(f) == IF f.readable THEN FirstCwd(f.lines) ELSE Undef

\* jsonlFiles in listing order
JsonlFiles(g) ==
    LET isLog(f) == EndsWith(f.path, JsonlExt) IN SelectSeq(g.files, isLog)

\* SortedStats without the sort: the files in listing order
SortedStatsListingOrder(g) == JsonlFiles(g)

\* fileStats after fileStats.sort((a, b) => b.mtime.getTime() - a.mtime.getTime())
SortedStats(g) == SortByMtimeDesc(JsonlFiles(g))

\* the ProjectInfo built from a file's path and modified time
ProjectInfo(p, f) ==
    [ok |-> TRUE, name |-> Basename(p.s), path |-> p, lastActivity |-> Date(f.mtime),
     exists |-> p.s \in ExistingDirs, encodedDirName |-> ProjName]

ProjInit ==
    /\ qpc = "list"
    /\ group \in {[listable |-> b, files |-> <<>>] : b \in BOOLEAN}
    /\ fileStats = <<>>
    /\ qidx = 1
    /\ readFiles = <<>>
    /\ project = NoProject

\* the next entry of the project directory's listing
NextEntry(k, m) ==
    /\ qpc = "list"
    /\ group.listable
    /\ Len(group.files) < MaxProjFiles
    /\ group' = [group EXCEPT !.files = Append(@, ProjFile(Len(@) + 1, k, m))]
    /\ UNCHANGED <<qpc, fileStats, qidx, readFiles, project, parseVars, loadVars, cmdVars, launchVars>>

\* readdir throws, no .jsonl file, or a stat of Promise.all throws: return null
ListFails ==
    /\ qpc = "list"
    /\ \/ ~group.listable
       \/ JsonlFiles(group) = <<>>
       \/ \E i \in 1..Len(JsonlFiles(group)) : ~JsonlFiles(group)[i].statOk
    /\ qpc' = "done"
    /\ project' = NoProject
    /\ UNCHANGED <<group, fileStats, qidx, readFiles, parseVars, loadVars, cmdVars, launchVars>>

\* readdir, the filter, the stats and the sort
ListDone ==
    /\ qpc = "list"
    /\ group.listable
    /\ JsonlFiles(group) # <<>>
    /\ \A i \in 1..Len(JsonlFiles(group)) : JsonlFiles(group)[i].statOk
    /\ fileStats' = SortedStats(group)
    /\ qpc' = "files"
    /\ UNCHANGED <<group, qidx, readFiles, project, parseVars, loadVars, cmdVars, launchVars>>

\* one iteration of the loop over fileStats: extractProjectPath reads the file; a
\* truthy path ends the loop (path.basename throws on a path that is not a string,
\* which the outer catch turns into null)
ReadNextFile ==
    /\ qpc = "files"
    /\ qidx <= Len(fileStats)
    /\ readFiles' = Append(readFiles, fileStats[qidx].path)
    /\ LET p == ExtractProjectPath(fileStats[qidx])
       IN  IF Truthy(p)
           THEN /\ project' = IF p.t = "str" THEN ProjectInfo(p, fileStats[qidx]) ELSE NoProject
                /\ qpc' = "done"
                /\ qidx' = qidx
           ELSE /\ project' = project
                /\ qpc' = qpc
                /\ qidx' = qidx + 1
    /\ UNCHANGED <<group, fileStats, parseVars, loadVars, cmdVars, launchVars>>

\* no file yields a path: return null
NoFileYields ==
    /\ qpc = "files"
    /\ qidx > Len(fileStats)
    /\ qpc' = "done"
    /\ project' = NoProject
    /\ UNCHANGED <<group, fileStats, qidx, readFiles, parseVars, loadVars, cmdVars, launchVars>>

-----------------------------------------------------------------------------
(* Specifications *)

ProjIdle ==
    /\ qpc = "off"
    /\ group = [listable |-> FALSE, files |-> <<>>]
    /\ fileStats = <<>>
    /\ qidx = 1
    /\ readFiles = <<>>
    /\ project = NoProject

ParseIdle ==
    /\ ppc = "off"
    /\ pnow = ParseNow
    /\ lines = <<>>
    /\ acc = InitAcc(ParseNow)
    /\ pfile = [path |-> <<>>, mtime |-> FileMtime, statOk |-> TRUE, readable |-> TRUE]
    /\ result = NoSession

LoadIdle ==
    /\ isGlobalLoading = FALSE
    /\ clock = ParseNow
    /\ mounted = [c \in Comps |-> TRUE]
    /\ isLoading = [c \in Comps |-> FALSE]
    /\ error = [c \in Comps |-> NoError]
    /\ sessions = [c \in Comps |-> <<>>]
    /\ pc = [c \in Comps |-> "off"]
    /\ guarded = [c \in Comps |-> FALSE]
    /\ startTime = [c \in Comps |-> 0]
    /\ recent = [c \in Comps |-> <<>>]
    /\ idx = [c \in Comps |-> 1]
    /\ local = [c \in Comps |-> <<>>]
    /\ scanCount = 0
    /\ rootListable = TRUE
    /\ projects = RootEntries

CmdIdle ==
    /\ cpc = "off"
    /\ ckind = "resume"
    /\ cisDir = FALSE
    /\ cdir = <<>>
    /\ carg = <<>>
    /\ command = <<>>
    /\ script = <<>>
    /\ typed = <<>>

\* the catalog refresh of the SessionSearch components
Init == LoadInit /\ ParseIdle /\ CmdIdle /\ ProjIdle /\ LaunchIdle

Next ==
    \/ \E c \in Comps : MountLoad(c)
    \/ \E c \in Comps : MountSkipped(c)
    \/ \E c \in Comps : Retry(c)
    \/ \E c \in Comps : ScanDone(c)
    \/ \E c \in Comps : ScanTimedOut(c)
    \/ \E c \in Comps : ParseNext(c)
    \/ \E c \in Comps : PublishAll(c)
    \/ \E c \in Comps : PublishPartial(c)
    \/ Tick

Spec == Init /\ [][Next]_vars

\* a refresh in flight goes on: each awaited file-system call settles, so the step of
\* loadSessions that waits for it is taken
LoadStep(c) ==
    ScanDone(c) \/ ScanTimedOut(c) \/ ParseNext(c) \/ PublishAll(c) \/ PublishPartial(c)

\* the catalog refresh of the components over a root with a single log file, with
\* refreshes in flight going on
InitLive == LoadStart(QuietRoot) /\ ParseIdle /\ CmdIdle /\ ProjIdle /\ LaunchIdle

SpecLive == InitLive /\ [][Next]_vars /\ \A c \in Comps : WF_vars(LoadStep(c))

\* one component's catalog refresh (and its retries), over the root of Spec or over
\* a root whose candidates outnumber TopK
InitOne ==
    (LoadStart(RootEntries) \/ LoadStart(BusyRoot)) /\ ParseIdle /\ CmdIdle /\ ProjIdle /\ LaunchIdle

NextOne ==
    \/ MountLoad(1)
    \/ Retry(1)
    \/ ScanDone(1)
    \/ ScanTimedOut(1)
    \/ ParseNext(1)
    \/ PublishAll(1)
    \/ PublishPartial(1)
    \/ Tick

SpecOne == InitOne /\ [][NextOne]_vars

\* parseSessionFile on one file
InitParse == ParseInit /\ LoadIdle /\ CmdIdle /\ ProjIdle /\ LaunchIdle

NextParse ==
    \/ ReadFile
    \/ ReadFileFails
    \/ \E i \in 1..Len(LineDomain) : NextLine(i)
    \/ ReturnEmpty
    \/ ReturnSession

SpecParse == InitParse /\ [][NextParse]_vars

\* parseSessionFile on one file of about LineCap lines or more
InitLong == ParseInit /\ LoadIdle /\ CmdIdle /\ ProjIdle /\ LaunchIdle

NextLong ==
    \/ ReadFile
    \/ ReadFileFails
    \/ \E i \in RunLines, n \in {LineCap - 1, LineCap} : ReadRun(i, n)
    \/ \E i \in LateLines : LateLine(i)
    \/ ReturnEmpty
    \/ ReturnSession

SpecLong == InitLong /\ [][NextLong]_vars

\* one launch command from its inputs to Terminal's shell
InitCmd == CmdInit /\ ParseIdle /\ LoadIdle /\ ProjIdle /\ LaunchIdle

NextCmd ==
    \/ BuildResume
    \/ BuildOpen
    \/ BuildProject
    \/ WrapScript
    \/ RunScript

SpecCmd == InitCmd /\ [][NextCmd]_vars

\* parseProject on one project group
InitProj == ProjInit /\ ParseIdle /\ LoadIdle /\ CmdIdle /\ LaunchIdle

NextProj ==
    \/ \E k \in FileKinds, m \in ProjMtimes : NextEntry(k, m)
    \/ ListFails
    \/ ListDone
    \/ ReadNextFile
    \/ NoFileYields

SpecProj == InitProj /\ [][NextProj]_vars

\* one launch through executeInTerminal, and the launcher's Launch Again
InitLaunch == LaunchInit /\ ParseIdle /\ LoadIdle /\ ProjIdle

NextLaunch ==
    \/ BuildResume
    \/ BuildOpen
    \/ BeginExecute
    \/ \E t \in TerminalApps : ExecSucceeds(t)
    \/ ExecUnsuccessful
    \/ ExecRaises
    \/ LaunchAgain

SpecLaunch == InitLaunch /\ [][NextLaunch]_vars

-----------------------------------------------------------------------------
(* How a POSIX shell reads a command line: words, quotes and command       *)
(* separators. Used to say what Terminal's shell makes of a launch line.   *)

ShellStart ==
    [mode |-> "n", esc |-> FALSE, cur |-> <<>>, inWord |-> FALSE, words |-> <<>>,
     cmds |-> <<>>, subst |-> FALSE]

FlushWord(st) ==
    IF st.inWord
    THEN [st EXCEPT !.words = Append(@, st.cur), !.cur = <<>>, !.inWord = FALSE]
    ELSE st

FlushCmd(st) ==
    LET w == FlushWord(st)
    IN  IF w.words # <<>> THEN [w EXCEPT !.cmds = Append(@, w.words), !.words = <<>>] ELSE w

Put(st, c) == [st EXCEPT !.cur = Append(@, c), !.inWord = TRUE]

\* the shell reading the character c outside quotes or inside double quotes, with no
\* backslash pending
ShellPlain(st, c) ==
    CASE st.mode = "n" ->
           IF c = " " THEN FlushWord(st)
           ELSE IF c \in {"&", ";", "|"} THEN FlushCmd(st)
           ELSE IF c = Quote THEN [st EXCEPT !.mode = "d", !.inWord = TRUE]
           ELSE IF c = "'" THEN [st EXCEPT !.mode = "s", !.inWord = TRUE]
           ELSE IF c = Backslash THEN [st EXCEPT !.esc = TRUE]
           ELSE IF c \in {"$", Backquote} THEN [Put(st, c) EXCEPT !.subst = TRUE]
           ELSE Put(st, c)
      [] st.mode = "d" ->
           IF c = Quote THEN [st EXCEPT !.mode = "n"]
           ELSE IF c = Backslash THEN [st EXCEPT !.esc = TRUE]
           ELSE IF c \in {"$", Backquote} THEN [Put(st, c) EXCEPT !.subst = TRUE]
           ELSE Put(st, c)
      [] OTHER ->
           IF c = "'" THEN [st EXCEPT !.mode = "n"] ELSE Put(st, c)

\* the shell reading the character c: after a backslash outside quotes c is taken as
\* it is; after a backslash inside double quotes c is taken as it is when it is one of
\* " \ $ and the backquote, and otherwise the backslash is kept and c is read as usual
ShellChar(st, c) ==
    IF ~st.esc THEN ShellPlain(st, c)
    ELSE IF st.mode = "n" THEN Put([st EXCEPT !.esc = FALSE], c)
    ELSE IF c \in {Quote, Backslash, "$", Backquote} THEN Put([st EXCEPT !.esc = FALSE], c)
    ELSE ShellPlain(Put([st EXCEPT !.esc = FALSE], Backslash), c)

RECURSIVE ShellRead(_, _)
\* the shell reading text from the state st: the first half of the text, then the
\* second half from the state the first half leaves (mid, computed before the second
\* half is entered)
ShellRead(text, st) ==
    IF text = <<>> THEN st
    ELSE IF Len(text) = 1 THEN ShellChar(st, text[1])
    ELSE LET half == Len(text) \div 2
             mid == ShellRead(SubSeq(text, 1, half), st)
         IN  IF mid.mode = mid.mode
             THEN ShellRead(SubSeq(text, half + 1, Len(text)), mid)
             ELSE st

\* the commands (each a sequence of words) the shell runs for a line, whether it
\* performs a $ or backquote expansion, and whether a quote is left open; a backslash
\* that ends the line is kept
ShellParse(text) ==
    LET st == ShellRead(text, ShellStart)
        end == IF st.esc THEN Put(st, Backslash) ELSE st
    IN  [cmds |-> FlushCmd(end).cmds, subst |-> end.subst, unterminated |-> end.mode # "n"]

WordCd == <<"c", "d">>
WordClaude == <<"c", "l", "a", "u", "d", "e">>
FlagResume == <<"-", "r">>
FlagAddDir == <<"-", "-", "a", "d", "d", "-", "d", "i", "r">>

\* what the launch line is meant to run: cd <dir>, then claude <flag> <value>
IntendedCommands ==
    << <<WordCd, cdir>>,
       <<WordClaude, IF ckind = "resume" THEN FlagResume ELSE FlagAddDir, carg>> >>

-----------------------------------------------------------------------------
(* Claims about the catalog refresh (Spec) *)

\* C1: at most one catalog refresh (loadSessions with its scan) runs at any time,
\* whether it was requested by a component mount or by the Retry action.
C1_OneRefreshAtATime == Cardinality({c \in Comps : pc[c] \in Running}) <= 1

\* the refresh of c stopped because one of its budget checks found the budget exceeded
StoppedAfterScan(c) == pc[c] = "failed"
StoppedBeforeFile(c) == pc[c] = "published" /\ idx[c] <= Len(recent[c])

-----------------------------------------------------------------------------
(* Claims about the launch command line (SpecCmd) *)

\* C3: for every directory and id/path value, Terminal's shell sees the launch line as
\* exactly cd <dir> followed by claude <flag> <value>: one argument per value, no
\* expansion, no open quote and no extra command.
C3_OneArgumentPerValue ==
    cpc = "shell" =>
        LET r == ShellParse(typed)
        IN  r.cmds = IntendedCommands /\ ~r.subst /\ ~r.unterminated

WordOsascript == <<"o", "s", "a", "s", "c", "r", "i", "p", "t">>
FlagE == <<"-", "e">>

\* C30: where the AppleScript text is passed inside a single-quoted shell argument
\* (resume and project launches), the spawned shell command is exactly one osascript
\* invocation whose -e argument is the whole script, for every directory, path and id
\* value: no value ends the single-quoted argument.
C30_OneOsascriptInvocation ==
    (cpc = "scripted" /\ ckind \in {"resume", "project"}) =>
        LET r == ShellParse(OsascriptLine(script))
        IN  r.cmds = << <<WordOsascript, FlagE, script>> >> /\ ~r.subst /\ ~r.unterminated

\* C4: undoing the AppleScript escaping and then the shell's double-quote reading gives
\* cd an argument equal to the original directory string.
C4_DirectoryRoundTrip ==
    cpc = "shell" =>
        LET r == ShellParse(typed)
        IN  /\ Len(r.cmds) >= 1
            /\ Len(r.cmds[1]) = 2
            /\ r.cmds[1][1] = WordCd
            /\ r.cmds[1][2] = cdir

-----------------------------------------------------------------------------
(* Claims about parseSessionFile (SpecParse) *)

LineAt(k) == LineDomain[lines[k]]

\* positions of the lines the loop examines: non-blank and within the cap
ExaminedAt ==
    {k \in 1..Len(lines) :
        /\ LineAt(k).kind # "blank"
        /\ Cardinality({j \in 1..k : LineAt(j).kind # "blank"}) <= LineCap}

Returned == ppc = "returned"

\* no line of the file is JSON-decodable
NoDecodableLine == \A k \in 1..Len(lines) : LineAt(k).kind \in {"bad", "blank"}

\* the file name ends in the 36-character identifier Uuid followed by .jsonl
NameEndsInId == EndsWith(pfile.path, Uuid \o JsonlExt)

CarriesId(k) == LineAt(k).kind = "obj" /\ Truthy(LineAt(k).sessionId)

NoIdLine == \A k \in ExaminedAt : ~CarriesId(k)

\* C5 as stated: a file with zero JSON-decodable lines yields no Session, whatever
\* its name.
C5_NoValidLineNoSession == (Returned /\ NoDecodableLine) => ~result.ok

\* C5 amended: a file with zero JSON-decodable lines yields no Session unless it has a
\* non-blank line and its name ends in a 36-character identifier followed by .jsonl;
\* then it yields a Session whose id is that identifier.
C5_NoValidLineNameDecides ==
    (Returned /\ NoDecodableLine) =>
        /\ result.ok <=> (pfile.readable /\ ExaminedAt # {} /\ NameEndsInId)
        /\ result.ok => result.id = Str(Uuid)

\* a file of undecodable lines only that yields a Session from its name
C5_Witness ==
    Returned /\ NoDecodableLine /\ ExaminedAt # {} /\ result.ok /\ result.id = Str(Uuid)

\* C6 as stated: when no line yields a session id, a name ending in a 36-character
\* identifier followed by .jsonl gives a Session with that id (also for a file with no
\* non-blank line), and any other name gives no Session.
C6_FilenameFallback ==
    (Returned /\ pfile.readable /\ NoIdLine) =>
        IF NameEndsInId THEN result.ok /\ result.id = Str(Uuid) ELSE ~result.ok

\* C6 amended: the same for files with at least one non-blank line; a file with no
\* non-blank line yields no Session whatever its name.
C6_FilenameFallbackNonEmpty ==
    (Returned /\ pfile.readable /\ NoIdLine) =>
        IF NameEndsInId /\ ExaminedAt # {}
        THEN result.ok /\ result.id = Str(Uuid)
        ELSE ~result.ok

\* a file with a decodable line but no id line, named by an identifier behind a prefix
C6_Witness ==
    /\ Returned /\ NoIdLine /\ result.ok /\ result.id = Str(Uuid)
    /\ \E k \in ExaminedAt : LineAt(k).kind = "obj"
    /\ ~EndsWith(pfile.path, ProjectDir \o Uuid \o JsonlExt)

\* the instants (ms) of the examined lines that carry a valid timestamp
StampAt(k) == NewDate(LineAt(k).timestamp)
Stamped == {k \in ExaminedAt : LineAt(k).kind = "obj" /\ Truthy(LineAt(k).timestamp)
                                  /\ StampAt(k).valid}
MaxOf(S) == CHOOSE m \in S : \A x \in S : x <= m

\* C7 as stated: when a Session is produced and some examined line is timestamped,
\* lastActivity is the maximum of the lines' timestamps.
C7_LastActivityIsMax ==
    (Returned /\ result.ok /\ Stamped # {}) =>
        result.lastActivity = Date(MaxOf({StampAt(k).ms : k \in Stamped}))

\* C7 amended: lastActivity is the maximum of the timestamps that lie after the Unix
\* epoch, in whatever order the lines appear; when no timestamp lies after the epoch
\* it equals the Session's timestamp (createdAt).
C7_LastActivityIsMaxAfterEpoch ==
    (Returned /\ result.ok) =>
        LET after == {StampAt(k).ms : k \in {j \in Stamped : StampAt(j).ms > 0}}
        IN  IF after # {}
            THEN result.lastActivity = Date(MaxOf(after))
            ELSE result.lastActivity = result.timestamp

\* a Session from a file whose later line carries an earlier timestamp
C7_Witness ==
    /\ Returned /\ result.ok
    /\ \E j, k \in Stamped : j < k /\ StampAt(j).ms > StampAt(k).ms /\ StampAt(k).ms > 0
                             /\ result.lastActivity = StampAt(j)

\* the examined records with type "summary", and those whose summary is non-empty
SummaryAt == {k \in ExaminedAt : LineAt(k).kind = "obj" /\ LineAt(k).type = Str(SummaryType)}
FilledSummaryAt == {k \in SummaryAt : Truthy(LineAt(k).summary)}

\* C8 as stated: when some examined record has type "summary", the description (before
\* any failure prefix) is the summary text of the last such record, whatever it is.
C8_LastSummaryWins ==
    (Returned /\ result.ok /\ SummaryAt # {}) =>
        acc.description = LineAt(MaxOf(SummaryAt)).summary

\* C8 amended: the description (before any failure prefix) is the summary of the last
\* summary record whose summary is non-empty, provided that text is not the placeholder
\* itself; summary records with an empty summary never set it.
C8_LastFilledSummaryWins ==
    (Returned /\ result.ok /\ FilledSummaryAt # {}) =>
        LET last == LineAt(MaxOf(FilledSummaryAt)).summary
        IN  /\ last # Str(Placeholder) => acc.description = last
            /\ result.description \in {acc.description, ConcatStr(FailureMark, acc.description)}

\* two different summaries with a message-content line between them
C8_Witness ==
    /\ Returned /\ result.ok
    /\ \E i, j, k \in FilledSummaryAt \cup ExaminedAt :
          /\ i < j /\ j < k
          /\ i \in FilledSummaryAt /\ k \in FilledSummaryAt
          /\ j \notin SummaryAt /\ ContentEligible(LineAt(j).content)
          /\ LineAt(i).summary # LineAt(k).summary
          /\ result.description = LineAt(k).summary

\* the description a message content of 1 to 199 characters gives
ExpectedFromContent(c) ==
    IF Len(c) <= 100 THEN c ELSE SubSeq(c, 1, 100) \o <<".", ".", ".">>

\* C9, one loop iteration on a line that is not a summary record with a summary: the
\* description changes only if the content is a string of 1 to 199 characters and the
\* description is still the placeholder, and then to the content (cut to 100 characters
\* plus "..." when longer); content of 200 characters or more changes nothing.
C9_Step ==
    (ppc = "loop" /\ ppc' = "loop" /\ Len(lines') = Len(lines) + 1) =>
        LET e == LineDomain[lines'[Len(lines')]]
        IN  (e.kind = "obj" /\ ~(e.type = Str(SummaryType) /\ Truthy(e.summary))) =>
               IF /\ e.content.t = "str"
                  /\ Len(e.content.s) \in 1..199
                  /\ acc.description = Str(Placeholder)
               THEN acc'.description = Str(ExpectedFromContent(e.content.s))
               ELSE acc'.description = acc.description

C9_MessageContentRule == [][C9_Step]_vars

\* a description cut to 100 characters and "..." from a content of 101 characters
C9_Witness ==
    /\ ppc = "loop"
    /\ \E k \in ExaminedAt : LineAt(k).content = Str(Rep("c", 101))
    /\ acc.description = Str(Rep("c", 100) \o <<".", ".", ".">>)

\* the first examined line that carries a session id
SeedAt == CHOOSE k \in ExaminedAt : CarriesId(k) /\ \A j \in ExaminedAt : CarriesId(j) => k <= j

SeedDirectory == IF Truthy(LineAt(SeedAt).cwd) THEN LineAt(SeedAt).cwd ELSE Str(Home)

\* C10 as stated: id, directory and createdAt of the Session all come from the first
\* examined line that carries a session id, whatever the later lines hold.
C10_SeedFixesAll ==
    (Returned /\ ~NoIdLine) =>
        /\ result.ok
        /\ result.id = LineAt(SeedAt).sessionId
        /\ result.directory = SeedDirectory
        /\ result.timestamp = StampAt(SeedAt)

\* C10 amended: the same, except that a seed timestamp exactly at the Unix epoch is
\* replaced by the file's modified time (by the current time when stat fails).
C10_SeedFixesAllButEpoch ==
    (Returned /\ ~NoIdLine) =>
        /\ result.ok
        /\ result.id = LineAt(SeedAt).sessionId
        /\ result.directory = SeedDirectory
        /\ result.timestamp =
              IF StampAt(SeedAt) = Date(0)
              THEN (IF pfile.statOk THEN Date(pfile.mtime) ELSE Date(pnow))
              ELSE StampAt(SeedAt)

\* a seed line without cwd followed by a line with another id, cwd and timestamp
C10_Witness ==
    /\ Returned /\ result.ok /\ ~NoIdLine
    /\ ~Truthy(LineAt(SeedAt).cwd)
    /\ \E k \in ExaminedAt : k > SeedAt /\ CarriesId(k) /\ Truthy(LineAt(k).cwd)
                             /\ LineAt(k).sessionId # LineAt(SeedAt).sessionId
    /\ result.directory = Str(Home)

\* C11: every Session parseSessionFile returns has lastActivity >= createdAt (its
\* timestamp), however its id was recovered and whatever lines carry a timestamp.
C11_LastActivityNotBeforeCreated ==
    (Returned /\ result.ok) => DateGE(result.lastActivity, result.timestamp)

\* does the text carry one of the two authentication-failure markers
HasFailureMarker(d) ==
    d.t = "str" /\ (Includes(d.s, InvalidApiKey) \/ Includes(d.s, PleaseRunLogin))

\* the Session is presented as an error session: the description recovered by the
\* loop behind the failure mark, and "~" when no directory was recovered
FlaggedAsError ==
    /\ result.description = ConcatStr(FailureMark, acc.description)
    /\ ~Truthy(acc.directory) => result.directory = Str(Home)

ContentAt ==
    {k \in ExaminedAt : LineAt(k).kind = "obj" /\ k \notin FilledSummaryAt
                          /\ LineAt(k).content.t # "undef" /\ LineAt(k).content # Str(<<>>)}

MinOf(S) == CHOOSE m \in S : \A x \in S : m <= x

\* C20 as stated, for files in which no summary record has set the description: a
\* description that is no longer the placeholder is the text of the first
\* content-bearing line (cut to 100 characters and "..." when longer), and so is never
\* changed by a later message-content line.
C20_FirstContentLineSets ==
    (ppc \in {"loop", "returned"} /\ FilledSummaryAt = {} /\ acc.description # Str(Placeholder)) =>
        /\ ContentAt # {}
        /\ acc.description = Str(ExpectedFromContent(LineAt(MinOf(ContentAt)).content.s))

\* the content lines that can set a description that stays: a string of 1 to 199
\* characters other than the placeholder text
SettingAt ==
    {k \in ContentAt : /\ LineAt(k).content.t = "str"
                       /\ Len(LineAt(k).content.s) \in 1..199
                       /\ LineAt(k).content.s # Placeholder}

\* C20 amended: the line that sets description from message content is the first line,
\* after the last summary record with a summary if there is one, whose content is a
\* string of 1 to 199 characters other than the placeholder text, and only when the
\* description holds the placeholder there (no summary so far, or the last summary is
\* the placeholder text); no later message-content line changes it, only a summary
\* record does.
C20_FirstEligibleContentSets ==
    ppc \in {"loop", "returned"} =>
        LET from == IF FilledSummaryAt = {} THEN 0 ELSE MaxOf(FilledSummaryAt)
            base == IF from = 0 THEN Str(Placeholder) ELSE LineAt(from).summary
            later == {k \in SettingAt : k > from}
        IN  acc.description =
               IF base = Str(Placeholder) /\ later # {}
               THEN Str(ExpectedFromContent(LineAt(MinOf(later)).content.s))
               ELSE base

\* a first content-bearing line too long to be taken, a second one that set the
\* description and a third one that left it alone
C20_Witness ==
    /\ ppc \in {"loop", "returned"} /\ FilledSummaryAt = {}
    /\ \E i, j, k \in ContentAt :
          /\ i = MinOf(ContentAt) /\ i < j /\ j < k
          /\ i \notin SettingAt /\ j \in SettingAt /\ k \in SettingAt
          /\ LineAt(j).content # LineAt(k).content
          /\ acc.description = LineAt(j).content

\* no examined line carries a timestamp
NoTimestampedLine ==
    \A k \in ExaminedAt : ~(LineAt(k).kind = "obj" /\ Truthy(LineAt(k).timestamp))

\* C21: a file that yields a Session and has no timestamped line among the lines
\* examined gets the file's modified time both as timestamp (createdAt) and as
\* lastActivity.
C21_NoStampMeansMtime ==
    (Returned /\ result.ok /\ NoTimestampedLine) =>
        /\ result.timestamp = Date(pfile.mtime)
        /\ result.lastActivity = Date(pfile.mtime)

\* processing the line raises an error: JSON.parse fails, a property of null is read,
\* or .includes is called on a summary that is a number
Raises(e) ==
    \/ e.kind \in {"bad", "null"}
    \/ e.kind = "obj" /\ e.type = Str(SummaryType) /\ Truthy(e.summary) /\ e.summary.t = "num"

\* C28: skipping a line is all-or-nothing: a line whose processing raises an error
\* leaves sessionId, directory, timestamp, lastActivity, description and the error
\* flag exactly as they were before that line.
C28_Step ==
    \A i \in 1..Len(LineDomain) :
        (ppc = "loop" /\ lines' = Append(lines, i) /\ Raises(LineDomain[i])) => acc' = acc

C28_SkipIsAllOrNothing == [][C28_Step]_vars

-----------------------------------------------------------------------------
(* Claims about long files (SpecLong) *)

\* the first n non-blank lines of ls
FirstNonBlank(ls, n) ==
    LET written(i) == LineDomain[i].kind # "blank"
        all == SelectSeq(ls, written)
    IN  IF Len(all) <= n THEN all ELSE SubSeq(all, 1, n)

\* C25: parseSessionFile examines at most the first 500 non-blank lines: the fields
\* collected by the loop, whether a Session is produced and every field of the Session
\* are those of the file cut after its 500th non-blank line.
C25_OnlyFirst500Count ==
    LET head == FirstNonBlank(lines, 500)
        fields == FoldLines(InitAcc(pnow), head)
    IN  /\ ppc = "loop" => acc = fields
        /\ (Returned /\ pfile.readable) =>
              result = IF head = <<>> THEN NoSession ELSE FinishSession(fields, pfile, pnow)

\* a Session whose id comes from the 500th non-blank line, itself preceded by a blank
\* line, from a file whose 501st non-blank line carries another id and a later time
C25_Witness ==
    /\ Returned /\ result.ok
    /\ Len(lines) = 502
    /\ LineDomain[lines[500]].kind = "blank"
    /\ lines[501] = 4 /\ lines[502] = 5
    /\ result.id = Str(s1) /\ result.lastActivity = Date(T1)

-----------------------------------------------------------------------------
(* Claims about the scan, the selection of files and publication           *)
(* (SpecOne)                                                             *)

Range(q) == {q[i] : i \in 1..Len(q)}

\* the files the scanner returns for the root of this run
Candidates == Range(GetAllSessionFiles(rootListable, projects))

\* the candidates modified strictly later than f
NewerThan(f) == {g \in Candidates : g.mtime > f.mtime}

\* the modified time of the file a published Session was parsed from
SourceMtime(s) == (CHOOSE f \in Candidates : f.path = s.filePath).mtime

\* C13: a refresh parses only files among the TopK most recently modified candidates,
\* one per step and at most TopK of them, and the published list holds at most TopK
\* Sessions in non-increasing order of their source files' modified times.
C13_TopKInMtimeOrder ==
    \A c \in Comps :
        /\ pc[c] \in {"parsing", "published"} =>
              /\ idx[c] - 1 <= TopK
              /\ Len(recent[c]) = Min(TopK, Cardinality(Candidates))
              /\ \A k \in 1..Len(recent[c]) :
                    recent[c][k] \in Candidates /\ Cardinality(NewerThan(recent[c][k])) < TopK
        /\ pc[c] = "published" =>
              /\ Len(sessions[c]) <= TopK
              /\ \A i \in 1..Len(sessions[c]) :
                    \E f \in Candidates : f.path = sessions[c][i].filePath
              /\ \A i, j \in 1..Len(sessions[c]) :
                    i < j => SourceMtime(sessions[c][i]) >= SourceMtime(sessions[c][j])

\* a full refresh over more than TopK candidates listed out of order: TopK Sessions
\* published, the first from a file modified later than the last one's
C13_Witness ==
    \E c \in Comps :
        /\ pc[c] = "published"
        /\ Cardinality(Candidates) > TopK
        /\ Len(sessions[c]) = TopK
        /\ SourceMtime(sessions[c][1]) > SourceMtime(sessions[c][TopK])
        /\ \E i, j \in 1..Len(GetAllSessionFiles(rootListable, projects)) :
              i < j /\ GetAllSessionFiles(rootListable, projects)[i].mtime
                          < GetAllSessionFiles(rootListable, projects)[j].mtime

\* every file of every entry of the root
AllFiles == UNION {Range(d.files) : d \in Range(projects)}

Oversized == {f \in AllFiles : f.size > MaxFileSize}

\* the files a scan can see: .jsonl files that can be stat'd, in project directories
\* that can be listed
Visible ==
    {f \in UNION {Range(d.files) : d \in {e \in Range(projects) : e.isDirectory /\ e.listable}} :
        EndsWith(f.path, JsonlExt) /\ f.statOk}

\* the Sessions a component holds, collected or published
Held(c) == Range(local[c]) \cup Range(sessions[c])

C15_ScanSkipsAndContinues ==
    /\ Candidates = IF rootListable THEN {f \in Visible : f.size <= MaxFileSize} ELSE {}
    /\ \A c \in Comps :
          /\ pc[c] \in {"parsing", "published"} /\ Cardinality(Candidates) <= TopK
                => Range(recent[c]) = Candidates
          /\ pc[c] = "published" /\ ~rootListable
                => sessions[c] = <<>> /\ error[c] = NoError /\ ~isLoading[c]
          /\ error[c] \in {NoError, TimeoutError}

\* a published Session from a file listed after one whose stat fails, in a project
\* directory listed after one that cannot be listed
C15_Witness ==
    \E c \in Comps :
        /\ pc[c] = "published"
        /\ \E i, j \in 1..Len(projects) :
              /\ i < j
              /\ projects[i].isDirectory /\ ~projects[i].listable
              /\ \E m, n \in 1..Len(projects[j].files) :
                    /\ m < n
                    /\ ~projects[j].files[m].statOk
                    /\ \E s \in Range(sessions[c]) : s.filePath = projects[j].files[n].path

\* C16, one step: the published list of a component changes only in a step that ends
\* its refresh as published with no error, and a step that ends a refresh as failed
\* leaves every published list as it was.
C16_Step ==
    \A c \in Comps :
        /\ sessions'[c] # sessions[c] => (pc'[c] = "published" /\ error'[c] = NoError)
        /\ (pc'[c] = "failed" /\ pc[c] # "failed") => sessions' = sessions

C16_FailureKeepsSessions == [][C16_Step]_vars

\* a refresh that failed on the budget after its scan: the error is shown, loading has
\* ended and the list is as it was before the refresh
C16_Witness ==
    \E c \in Comps :
        /\ pc[c] = "failed" /\ error[c] = TimeoutError /\ ~isLoading[c]
        /\ scanCount >= 1 /\ sessions[c] = <<>>

\* the paths of the Sessions of q, in order
PathsOf(q) == [i \in 1..Len(q) |-> q[i].filePath]

\* the paths of the files of q that yield a Session, in order
RECURSIVE YieldingPaths(_)
YieldingPaths(q) ==
    IF q = <<>> THEN <<>>
    ELSE (IF ParseSessionFile(Head(q), ParseNow).ok THEN <<Head(q).path>> ELSE <<>>)
         \o YieldingPaths(Tail(q))

\* C22: during a refresh the published list is not modified until the refresh ends.
\* A step changes a component's list only as the last step of that component's refresh
\* (the loop over the files is over or was stopped by the budget, loading ends in the
\* same step), and the list written is the whole of the list that refresh built
\* locally: one Session per file parsed so far that yields one, in the order of that
\* refresh's own file list, also while another component's refresh is in flight.
C22_Step ==
    \A c \in Comps :
        sessions'[c] # sessions[c] =>
            /\ pc[c] = "parsing" /\ pc'[c] = "published"
            /\ isLoading[c] /\ ~isLoading'[c]
            /\ sessions'[c] = local[c]
            /\ PathsOf(local[c]) = YieldingPaths(SubSeq(recent[c], 1, idx[c] - 1))
            /\ \A d \in Comps \ {c} : sessions'[d] = sessions[d]

C22_PublishedOnceAtEnd == [][C22_Step]_vars

\* one component has published its list while the refresh of another, started by
\* Retry, has collected Sessions and left that component's list untouched
C22_Witness ==
    \E c, d \in Comps :
        /\ c # d
        /\ pc[c] = "published" /\ sessions[c] = local[c] /\ sessions[c] # <<>>
        /\ pc[d] = "parsing" /\ ~guarded[d] /\ local[d] # <<>> /\ sessions[d] = <<>>

\* a candidate that cannot be read, or none of whose lines can be decoded
Unreadable(f) == ~f.readable
Undecodable(f) ==
    f.readable /\ \A k \in 1..Len(f.lines) : LineDomain[f.lines[k]].kind \in {"bad", "blank"}

\* the paths of the files of q that satisfy keep, in order
PathsWhere(q, keep(_)) ==
    LET kept == SelectSeq(q, keep) IN [i \in 1..Len(kept) |-> kept[i].path]

\* a refresh that ran over all of its files and published
FullyPublished(c) == pc[c] = "published" /\ idx[c] > Len(recent[c])

\* C23 as stated: a candidate that cannot be read or decoded contributes no Session
\* and nothing else: a refresh that ran over all its files publishes, in the order of
\* the files, the Sessions of the other files that yield one.
C23_BrokenFileContributesNothing ==
    \A c \in Comps :
        FullyPublished(c) =>
            LET sound(f) == /\ ~Unreadable(f) /\ ~Undecodable(f)
                            /\ ParseSessionFile(f, ParseNow).ok
            IN  PathsOf(sessions[c]) = PathsWhere(recent[c], sound)

\* C23 amended: a candidate that cannot be read contributes no Session, and one with
\* no decodable line contributes none unless it has a non-blank line and its name ends
\* in a 36-character identifier followed by .jsonl (then it contributes the Session
\* named by that identifier); in either case nothing else changes: the refresh parses
\* every remaining candidate in order and publishes the Sessions of all other files.
C23_BrokenFileOnlyByName ==
    \A c \in Comps :
        FullyPublished(c) =>
            LET named(f) == /\ Examined(f.lines) # <<>>
                            /\ FilenameId(f.path) # <<>>
                sound(f) == /\ ~Unreadable(f)
                            /\ IF Undecodable(f) THEN named(f)
                               ELSE ParseSessionFile(f, ParseNow).ok
            IN  /\ PathsOf(sessions[c]) = PathsWhere(recent[c], sound)
                /\ \A i \in 1..Len(sessions[c]) :
                      \A f \in Range(recent[c]) :
                          (f.path = sessions[c][i].filePath /\ Undecodable(f)) =>
                              sessions[c][i].id = Str(FilenameId(f.path))

\* a published list with a Session from a file parsed after an unreadable one and
\* after an undecodable one
C23_Witness ==
    \E c \in Comps :
        /\ FullyPublished(c)
        /\ \E i, j, k \in 1..Len(recent[c]) :
              /\ i < k /\ j < k
              /\ Unreadable(recent[c][i]) /\ Undecodable(recent[c][j])
              /\ \E n \in 1..Len(sessions[c]) : sessions[c][n].filePath = recent[c][k].path

\* C29: no two Sessions of a published list have the same id, whatever the log files
\* hold.
C29_PublishedIdsDistinct ==
    \A c \in Comps :
        \A i, j \in 1..Len(sessions[c]) : i # j => sessions[c][i].id # sessions[c][j].id

-----------------------------------------------------------------------------
(* Claims about the guard and the progress of a refresh (Spec, SpecLive) *)

\* a step that ends a refresh started under the guard leaves the flag clear, and the
\* flag is set only while such a refresh is in flight
C26_Step ==
    /\ \A c \in Comps :
          (guarded[c] /\ pc[c] \in Running /\ pc'[c] \notin Running) => ~isGlobalLoading'
    /\ isGlobalLoading' => \E c \in Comps : guarded'[c] /\ pc'[c] \in Running

\* C26: the in-flight flag isGlobalLoading is always released: when a refresh started
\* through the guarded entry point ends (published in full, published on the budget,
\* or failed after the scan) the flag is false again, so the flag is never set without
\* such a refresh in flight and a later mount can start a new refresh.
C26_FlagAlwaysReleased == [][C26_Step]_vars

\* a component has mounted and started a guarded refresh after another component's
\* guarded refresh failed on the budget
C26_Witness ==
    \E c, d \in Comps :
        /\ pc[c] = "failed" /\ guarded[c]
        /\ pc[d] \in Running /\ guarded[d] /\ isGlobalLoading

\* C27: every mounted SessionSearch component eventually leaves the loading state,
\* also one that mounted while another component's refresh was in flight.
C27_EveryMountedLeavesLoading ==
    \A c \in Comps : (mounted[c] /\ isLoading[c]) ~> ~isLoading[c]

-----------------------------------------------------------------------------
(* Claims about parseProject (SpecProj) *)

\* the positions of the lines of f whose cwd is non-empty and not "/"
UsableLines(f) ==
    {k \in 1..Len(f.lines) :
        LET e == LineDomain[f.lines[k]]
        IN  e.kind = "obj" /\ e.cwd.t # "undef" /\ e.cwd # Str(<<>>) /\ e.cwd # Str(<<"/">>)}

\* the first such cwd of f
FirstUsable(f) ==
    LineDomain[f.lines[CHOOSE k \in UsableLines(f) : \A j \in UsableLines(f) : k <= j]].cwd

\* the .jsonl files of the group that can be read and contain such a cwd
Yielding ==
    {f \in Range(group.files) :
        EndsWith(f.path, JsonlExt) /\ f.readable /\ UsableLines(f) # {}}

MtimeOfPath(q) == (CHOOSE f \in Range(group.files) : f.path = q).mtime

\* C17: when parseProject returns a Project, its path is the first cwd that is
\* non-empty and not "/" of a most recently modified file among those of the group
\* that contain such a value, its lastActivity is that file's modified time, and no
\* file modified before that one was read.
C17_ProjectFromNewestYielding ==
    (qpc = "done" /\ project.ok) =>
        \E f \in Yielding :
            /\ \A g \in Yielding : g.mtime <= f.mtime
            /\ project.path = FirstUsable(f)
            /\ project.lastActivity = Date(f.mtime)
            /\ \A k \in 1..Len(readFiles) : MtimeOfPath(readFiles[k]) >= f.mtime

\* a Project taken from the most recently modified file after its "/" cwd was passed
\* over, while an older file listed before it, which also contains a path, is left unread
C17_Witness ==
    /\ qpc = "done" /\ project.ok
    /\ project.path = Str(DirQ)
    /\ Len(group.files) >= 2
    /\ \E f, g \in Yielding :
          /\ f.mtime > g.mtime
          /\ f.path = readFiles[Len(readFiles)]
          /\ \A k \in 1..Len(readFiles) : readFiles[k] # g.path
          /\ \E i, j \in 1..Len(group.files) :
                i < j /\ group.files[i] = g /\ group.files[j] = f

\* the log files of the group that can be stat'd and read and whose first usable cwd is
\* a string
LogsWithPath == {f \in Yielding : f.statOk /\ FirstUsable(f).t = "str"}

\* C24: a project group that can be listed yields a Project whenever at least one of
\* its log files contains a usable working-directory path, even if some other entry
\* cannot be stat'd or read, and yields none only when no file yields a path.
C24_ProjectWheneverSomeFileYields ==
    (qpc = "done" /\ group.listable) => (project.ok <=> LogsWithPath # {})

\* dirname of a path: what lies before its last "/" ("/" for an entry of the root)
ParentDir(path) ==
    LET slashes == {i \in 1..Len(path) : path[i] = "/"}
        last == IF slashes = {} THEN 0 ELSE CHOOSE i \in slashes : \A j \in slashes : j <= i
    IN  IF last = 0 THEN <<".">> ELSE IF last = 1 THEN <<"/">> ELSE SubSeq(path, 1, last - 1)

\* Finder hands over absolute paths whose last segment is a name (not empty, not ".")
IsFinderPath(path) ==
    /\ Len(path) >= 2 /\ path[1] = "/"
    /\ Basename(path) \notin {<<>>, <<".">>}

\* C19: the command built for a selected Finder item (an absolute path) changes
\* directory to the item's parent directory when the item is a file and to the item
\* itself when it is a directory, and passes the item's own path to --add-dir in both
\* cases.
C19_CdByItemKind ==
    (cpc = "built" /\ ckind = "open" /\ IsFinderPath(carg)) =>
        command = OpenCommand(IF cisDir THEN carg ELSE ParentDir(carg), carg)

-----------------------------------------------------------------------------
(* Claims about launches through executeInTerminal (SpecLaunch) *)

\* C18: every launch attempt that has ended left no error unhandled and shows exactly
\* one report: after a successful result, a success report naming the terminal used;
\* after an unsuccessful result or a raised error, a failure report carrying the
\* manual command.
C18_EveryAttemptReported ==
    cpc = "reported" =>
        /\ ~unhandled
        /\ loutcome.kind = "success" => report = SuccessReport(loutcome.terminal)
        /\ loutcome.kind \in {"unsuccessful", "raised"} => report = FailureReport(command)

====
